---- MODULE Spec2Model ----
(***************************************************************************)
(* AgroShield-360: the analysis pipeline (yield prediction, risk index,    *)
(* financial evaluation, scenario simulation, scoring) and the pages that  *)
(* recompute it inline.                                                    *)
(*                                                                         *)
(* Numbers.  The program computes with Python floats; the model computes   *)
(* with exact scaled integers, each quantity in a fixed unit:              *)
(*   scale 1-10, years, months ........ plain integers                     *)
(*   weights, region factors, multipliers ... hundredths (0.30 is 30)      *)
(*   factor_ajuste ..................... 1e-4                              *)
(*   yields (kg/ha) before rounding .... 1e-4 kg/ha                        *)
(*   values after round(x, 2) .......... 1e-2 (cents, centi-kg, 0.01 %)    *)
(*   money inside a computation ........ whole soles                       *)
(*   prices ............................ tenths of a sol                   *)
(*   risk values before rounding ....... 1e-6;  after round(x, 4): 1e-4    *)
(* The input sets are chosen so that every quotient the code takes, other  *)
(* than the ones it rounds, is exact in these units.  Names follow the     *)
(* source without accents (Maiz is 'Maíz').                                *)
(***************************************************************************)
EXTENDS Integers, Sequences, FiniteSets, TLC

VARIABLES
    pc,                   \* "idle", "bucle" (inside the loop of simular_escenarios), "ret"
    op,                   \* the operation called
    args,                 \* its arguments, as passed
    ret,                  \* its result, or the exception it raised
    marco,                \* the frame of a running simular_escenarios
    pendientes,           \* the scenario names its loop has still to visit
    escenarios_llamador,  \* the dict of scenarios the caller passed, or NINGUNO
    escenarios_default,   \* EscenariosService.escenarios_default
    rng,                  \* the state of the global generator np.random
    registro,             \* the calls finished while the generator is watched
    session_state         \* st.session_state: the artifacts the pages have stored

vars == <<pc, op, args, ret, marco, pendientes, escenarios_llamador,
          escenarios_default, rng, registro, session_state>>

-----------------------------------------------------------------------------
(* Python helpers                                                          *)

Min(a, b) == IF a <= b THEN a ELSE b

Max(a, b) == IF a >= b THEN a ELSE b

Abs(a) == IF a < 0 THEN -a ELSE a

\* round(n/d) to the nearest integer, ties to the even one (Python's round), d > 0
RoundHalfEven(n, d) ==
    LET q == n \div d
        r == n % d
    IN  IF 2 * r < d THEN q
        ELSE IF 2 * r > d THEN q + 1
        ELSE IF q % 2 = 0 THEN q ELSE q + 1

\* a raised exception, as the value a call ends with
Excepcion(tipo) == [excepcion |-> tipo]

EsExcepcion(r) == "excepcion" \in DOMAIN r

\* dict.get(key, default)
Get(d, key, default) == IF key \in DOMAIN d THEN d[key] ELSE default

\* the empty dict, and 'not d' for a dict
DictVacio == [k \in {} |-> TRUE]

EsVacio(d) == DOMAIN d = {}

\* None, and a present optional value (an int and None are never compared)
NINGUNO == [ninguno |-> TRUE]

Algun(x) == [valor |-> x]

EsNinguno(o) == "ninguno" \in DOMAIN o

-----------------------------------------------------------------------------
(* models/rendimiento_model.py                                             *)

\* the fallback table of _load_cultivos_data (kg/ha)
cultivos_data ==
    [c \in {"Maiz", "Papa", "Arroz"} |->
        CASE c = "Maiz"  -> [rendimiento_promedio_kg_ha |-> 8000,
                             rendimiento_minimo_kg_ha |-> 4000,
                             rendimiento_maximo_kg_ha |-> 12000]
          [] c = "Papa"  -> [rendimiento_promedio_kg_ha |-> 25000,
                             rendimiento_minimo_kg_ha |-> 15000,
                             rendimiento_maximo_kg_ha |-> 35000]
          [] c = "Arroz" -> [rendimiento_promedio_kg_ha |-> 9000,
                             rendimiento_minimo_kg_ha |-> 6000,
                             rendimiento_maximo_kg_ha |-> 12000]]

\* pesos_factores, hundredths
pesos_factores ==
    [fertilidad_suelo |-> 30, disponibilidad_agua |-> 30,
     tecnologia |-> 25, experiencia |-> 15]

RegionesConocidas ==
    {"Lima", "Arequipa", "La Libertad", "Lambayeque", "Piura", "Ica", "Junin",
     "Cajamarca", "Cusco", "Ancash", "Ayacucho", "Huanuco", "San Martin"}

\* factores_region, hundredths
factores_region ==
    [r \in RegionesConocidas |->
        CASE r = "Lima" -> 95 [] r = "Arequipa" -> 90 [] r = "La Libertad" -> 92
          [] r = "Lambayeque" -> 88 [] r = "Piura" -> 85 [] r = "Ica" -> 93
          [] r = "Junin" -> 87 [] r = "Cajamarca" -> 86 [] r = "Cusco" -> 84
          [] r = "Ancash" -> 89 [] r = "Ayacucho" -> 85 [] r = "Huanuco" -> 86
          [] r = "San Martin" -> 91]

\* factor_region used when the region is not in factores_region, hundredths
FACTOR_REGION_DEFAULT == 90

\* factor de ajuste, 1e-4: each x/10 is x*1000, min(experiencia/20, 1) is
\* min(experiencia*500, 10000), and the weights are hundredths
calcular_factor_ajuste(fertilidad_suelo, disponibilidad_agua, tecnologia, experiencia) ==
    LET exp_normalizada == Min(experiencia * 500, 10000)
    IN  ( fertilidad_suelo * 1000 * pesos_factores.fertilidad_suelo
        + disponibilidad_agua * 1000 * pesos_factores.disponibilidad_agua
        + tecnologia * 1000 * pesos_factores.tecnologia
        + exp_normalizada * pesos_factores.experiencia ) \div 100

\* base (kg/ha, a multiple of 100) * factor_region (hundredths) * x (1e-4),
\* in 1e-4 kg/ha
Producto(base, factor_region, x) == (base \div 100) * factor_region * x

\* the three adjusted yields of a crop table entry, 1e-4 kg/ha
RendimientosAjustados(base_min, base_medio, base_max, factor_region, factor_ajuste) ==
    [rendimiento_minimo |->
        Producto(base_min, factor_region, Max(factor_ajuste - 2000, 5000)),
     rendimiento_probable |->
        Producto(base_medio, factor_region, factor_ajuste),
     rendimiento_maximo |->
        Producto(base_max, factor_region, Min(factor_ajuste + 2000, 12000))]

\* a variant of predecir_rendimiento that leaves an unknown region unadjusted
PredecirConFactorUno(cultivo, region, fertilidad_suelo, disponibilidad_agua, tecnologia, experiencia) ==
    IF cultivo \notin DOMAIN cultivos_data
    THEN Excepcion("ValueError")
    ELSE LET cultivo_info == cultivos_data[cultivo]
             factor_region == Get(factores_region, region, 100)
             factor_ajuste == calcular_factor_ajuste(
                 fertilidad_suelo, disponibilidad_agua, tecnologia, experiencia)
         IN  RendimientosAjustados(cultivo_info.rendimiento_minimo_kg_ha,
                                   cultivo_info.rendimiento_promedio_kg_ha,
                                   cultivo_info.rendimiento_maximo_kg_ha,
                                   factor_region, factor_ajuste)

predecir_rendimiento(cultivo, region, fertilidad_suelo, disponibilidad_agua, tecnologia, experiencia) ==
    IF cultivo \notin DOMAIN cultivos_data
    THEN Excepcion("ValueError")
    ELSE LET cultivo_info == cultivos_data[cultivo]
             factor_region == Get(factores_region, region, FACTOR_REGION_DEFAULT)
             factor_ajuste == calcular_factor_ajuste(
                 fertilidad_suelo, disponibilidad_agua, tecnologia, experiencia)
         IN  RendimientosAjustados(cultivo_info.rendimiento_minimo_kg_ha,
                                   cultivo_info.rendimiento_promedio_kg_ha,
                                   cultivo_info.rendimiento_maximo_kg_ha,
                                   factor_region, factor_ajuste)

\* RendimientoService.predecir_rendimiento_completo without its texts: yields
\* and productions in cents, factor_ajuste in thousandths; parametros may
\* lack keys
predecir_rendimiento_completo(cultivo, region, area_disponible, parametros) ==
    LET r == predecir_rendimiento(cultivo, region,
                                  Get(parametros, "fertilidad_suelo", 7),
                                  Get(parametros, "disponibilidad_agua", 7),
                                  Get(parametros, "tecnologia", 6),
                                  Get(parametros, "experiencia", 10))
        factor_ajuste == calcular_factor_ajuste(Get(parametros, "fertilidad_suelo", 7),
                                                Get(parametros, "disponibilidad_agua", 7),
                                                Get(parametros, "tecnologia", 6),
                                                Get(parametros, "experiencia", 10))
    IN  IF EsExcepcion(r) THEN r
        ELSE [rendimiento_minimo |-> RoundHalfEven(r.rendimiento_minimo, 100),
              rendimiento_probable |-> RoundHalfEven(r.rendimiento_probable, 100),
              rendimiento_maximo |-> RoundHalfEven(r.rendimiento_maximo, 100),
              produccion_minima |->
                  RoundHalfEven(r.rendimiento_minimo * area_disponible, 100),
              produccion_probable |->
                  RoundHalfEven(r.rendimiento_probable * area_disponible, 100),
              produccion_maxima |->
                  RoundHalfEven(r.rendimiento_maximo * area_disponible, 100),
              factor_ajuste |-> RoundHalfEven(factor_ajuste, 10),
              factor_region |-> Get(factores_region, region, FACTOR_REGION_DEFAULT),
              parametros |-> parametros,
              area_disponible |-> area_disponible]

\* the rows comparar_cultivos collects: a crop whose prediction raises is
\* passed over by "except: continue"
RECURSIVE FilasComparacion(_, _, _, _)
FilasComparacion(cultivos, region, area_disponible, parametros) ==
    IF cultivos = <<>> THEN <<>>
    ELSE LET cultivo == Head(cultivos)
             prediccion == predecir_rendimiento_completo(cultivo, region,
                                                         area_disponible, parametros)
             resto == FilasComparacion(Tail(cultivos), region, area_disponible,
                                       parametros)
         IN  IF EsExcepcion(prediccion) THEN resto
             ELSE <<[Cultivo |-> cultivo,
                     Rendimiento |-> prediccion.rendimiento_probable,
                     ProduccionTotal |-> prediccion.produccion_probable,
                     RendMinimo |-> prediccion.rendimiento_minimo,
                     RendMaximo |-> prediccion.rendimiento_maximo]>> \o resto

\* RendimientoService.comparar_cultivos: the DataFrame as the sequence of its rows
comparar_cultivos(cultivos, region, area_disponible, parametros) ==
    [filas |-> FilasComparacion(cultivos, region, area_disponible, parametros)]

CultivosEstacionales ==
    {"Maiz", "Papa", "Arroz", "Trigo", "Quinua", "Esparrago", "Palta", "Cafe",
     "Cacao", "Algodon"}

meses_optimos ==
    [c \in CultivosEstacionales |->
        CASE c = "Maiz" -> {9, 10, 11}
          [] c = "Papa" -> {8, 9, 10}
          [] c = "Arroz" -> {11, 12, 1}
          [] c = "Trigo" -> {4, 5, 6}
          [] c = "Quinua" -> {8, 9, 10}
          [] c = "Esparrago" -> 1..12
          [] c = "Palta" -> 1..12
          [] c = "Cafe" -> {4, 5, 6}
          [] c = "Cacao" -> 1..12
          [] c = "Algodon" -> {8, 9, 10}]

\* factor_estacional outside the optimal months, hundredths
FACTOR_FUERA_DE_MES == 92

\* a variant of the seasonal adjustment that leaves the yield as it is
AjusteSinEstacion(rend, factor_estacional) == rend

\* rend (1e-4 kg/ha, a multiple of 25) * factor_estacional (hundredths, a
\* multiple of 4), in 1e-4 kg/ha
AjusteEstacional(rend, factor_estacional) == (rend \div 25) * (factor_estacional \div 4)

_calcular_confianza(fertilidad, agua, tecnologia) ==
    LET suma == fertilidad + agua + tecnologia
    IN  IF suma >= 8 * 3 THEN "Alta"
        ELSE IF suma >= 6 * 3 THEN "Media"
        ELSE "Baja"

\* the returned yields are round(x, 2): 1e-2 kg/ha; factor_ajuste is round(x, 3)
predecir_con_clima(cultivo, region, mes_siembra, fertilidad_suelo, disponibilidad_agua, tecnologia, experiencia) ==
    LET p == predecir_rendimiento(cultivo, region, fertilidad_suelo,
                                  disponibilidad_agua, tecnologia, experiencia)
    IN  IF EsExcepcion(p) THEN p
        ELSE LET es_mes_optimo == mes_siembra \in Get(meses_optimos, cultivo, {})
                 factor_estacional == IF es_mes_optimo THEN 100 ELSE FACTOR_FUERA_DE_MES
                 rend_prob_ajustado ==
                     AjusteEstacional(p.rendimiento_probable, factor_estacional)
                 rend_max_ajustado ==
                     AjusteEstacional(p.rendimiento_maximo, factor_estacional)
             IN  [rendimiento_minimo |-> RoundHalfEven(p.rendimiento_minimo, 100),
                  rendimiento_probable |-> RoundHalfEven(rend_prob_ajustado, 100),
                  rendimiento_maximo |-> RoundHalfEven(rend_max_ajustado, 100),
                  factor_region |-> Get(factores_region, region, FACTOR_REGION_DEFAULT),
                  factor_ajuste |-> RoundHalfEven(
                      calcular_factor_ajuste(fertilidad_suelo, disponibilidad_agua,
                                             tecnologia, experiencia), 10),
                  mes_optimo |-> es_mes_optimo,
                  factor_estacional |-> factor_estacional,
                  confianza |-> _calcular_confianza(
                      fertilidad_suelo, disponibilidad_agua, tecnologia)]

-----------------------------------------------------------------------------
(* pages/2_Predicción_de_Rendimiento.py                                    *)

\* rendimientos_base of the page (kg/ha)
rendimientos_base ==
    [c \in CultivosEstacionales |->
        CASE c = "Maiz" -> [min |-> 4000, medio |-> 8000, max |-> 12000]
          [] c = "Papa" -> [min |-> 15000, medio |-> 25000, max |-> 35000]
          [] c = "Arroz" -> [min |-> 6000, medio |-> 9000, max |-> 12000]
          [] c = "Trigo" -> [min |-> 2500, medio |-> 4000, max |-> 6000]
          [] c = "Quinua" -> [min |-> 1200, medio |-> 2000, max |-> 3000]
          [] c = "Esparrago" -> [min |-> 8000, medio |-> 12000, max |-> 18000]
          [] c = "Palta" -> [min |-> 8000, medio |-> 15000, max |-> 22000]
          [] c = "Cafe" -> [min |-> 800, medio |-> 1500, max |-> 2500]
          [] c = "Cacao" -> [min |-> 600, medio |-> 1200, max |-> 2000]
          [] c = "Algodon" -> [min |-> 2500, medio |-> 4000, max |-> 6000]]

\* the page's yield computation: nothing is computed or stored for a crop
\* outside rendimientos_base; yields in 1e-4 kg/ha, productions in 1e-4 kg
Pagina2Prediccion(cultivo, ubicacion, area, fertilidad_suelo, disponibilidad_agua, tecnologia, experiencia) ==
    IF cultivo \notin DOMAIN rendimientos_base
    THEN NINGUNO
    ELSE LET base == rendimientos_base[cultivo]
             factor_region == Get(factores_region, ubicacion, FACTOR_REGION_DEFAULT)
             factor_ajuste ==
                 ( fertilidad_suelo * 1000 * 30 + disponibilidad_agua * 1000 * 30
                 + tecnologia * 1000 * 25 + Min(experiencia * 500, 10000) * 15 ) \div 100
             r == RendimientosAjustados(base.min, base.medio, base.max,
                                        factor_region, factor_ajuste)
         IN  [rendimiento_minimo |-> r.rendimiento_minimo,
              rendimiento_probable |-> r.rendimiento_probable,
              rendimiento_maximo |-> r.rendimiento_maximo,
              produccion_minima |-> r.rendimiento_minimo * area,
              produccion_probable |-> r.rendimiento_probable * area,
              produccion_maxima |-> r.rendimiento_maximo * area,
              factor_ajuste |-> factor_ajuste,
              factor_region |-> factor_region]

-----------------------------------------------------------------------------
(* services/economia_service.py                                            *)

RECURSIVE Potencia(_, _)
Potencia(b, e) == IF e = 0 THEN 1 ELSE b * Potencia(b, e - 1)

RECURSIVE Suma(_)
Suma(s) == IF s = <<>> THEN 0 ELSE Head(s) + Suma(Tail(s))

\* round(num/den, 2) in hundredths, den > 0, by long division (two decimal
\* digits, then ties to even)
Round2(num, den) ==
    LET q0 == num \div den
        r0 == num % den
        d1 == (10 * r0) \div den
        r1 == (10 * r0) % den
        d2 == (10 * r1) \div den
        r2 == (10 * r1) % den
        b  == 100 * q0 + 10 * d1 + d2
    IN  IF 2 * r2 < den THEN b
        ELSE IF 2 * r2 > den THEN b + 1
        ELSE IF b % 2 = 0 THEN b ELSE b + 1

\* tasa_descuento_default, percent per year
TASA_DESCUENTO_DEFAULT == 12

\* a variant of calcular_flujo_caja that receives the revenue in period 0
FlujoCajaIngresoAdelantado(inversion_inicial, ingresos_totales, costos_operativos, duracion_meses) ==
    LET cuota == IF duracion_meses > 1
                 THEN ((inversion_inicial * 7) \div 10) \div (duracion_meses - 1)
                 ELSE 0
    IN  << ingresos_totales - ((inversion_inicial * 3) \div 10) >>
        \o [i \in 1..(duracion_meses - 1) |-> -cuota]
        \o << -(IF duracion_meses > 1
                THEN ((inversion_inicial * 7) \div 10) \div duracion_meses
                ELSE 0) >>

\* calcular_flujo_caja: period i of the schedule is element i+1 of the
\* sequence; whole soles.  costos_operativos is not read.
calcular_flujo_caja(inversion_inicial, ingresos_totales, costos_operativos, duracion_meses) ==
    LET inicial == << -((inversion_inicial * 3) \div 10) >>
        intermedios ==
            IF duracion_meses > 1
            THEN LET costo_mensual ==
                         ((inversion_inicial * 7) \div 10) \div (duracion_meses - 1)
                 IN  [i \in 1..(duracion_meses - 1) |-> -costo_mensual]
            ELSE <<>>
        ingreso_final ==
            ingresos_totales
            - (IF duracion_meses > 1
               THEN ((inversion_inicial * 7) \div 10) \div duracion_meses
               ELSE 0)
    IN  inicial \o intermedios \o <<ingreso_final>>

\* numpy_financial.npv(rate, values) with rate = tasa_mensual percent:
\* sum of values[i] / (1 + rate)^i, as the fraction num/den with
\* den = (100 + tasa_mensual)^(len - 1)
npv(tasa_mensual, flujo) ==
    LET n == Len(flujo) - 1
        d == 100 + tasa_mensual
    IN  [num |-> Suma([k \in 1..Len(flujo) |->
                          flujo[k] * Potencia(100, k - 1) * Potencia(d, n - (k - 1))]),
         den |-> Potencia(d, n)]

\* numpy_financial.irr(values) on a schedule whose periods before the last are
\* all <= 0: a rate exists exactly when the schedule has a negative and a
\* positive period; otherwise irr returns nan without raising
irr(flujo) ==
    IF /\ \E k \in 1..Len(flujo) : flujo[k] < 0
       /\ \E k \in 1..Len(flujo) : flujo[k] > 0
    THEN "numero"
    ELSE "nan"

\* tasa_descuento_anual is Algun(percent per year, a multiple of 12) or NINGUNO;
\* van is round(van, 2), cents.  nan is truthy, so 'x if tir_anual else None'
\* keeps it.
calcular_van_tir(flujo_caja, tasa_descuento_anual) ==
    LET tasa == IF EsNinguno(tasa_descuento_anual)
                THEN TASA_DESCUENTO_DEFAULT ELSE tasa_descuento_anual.valor
        tasa_mensual == tasa \div 12
        van == npv(tasa_mensual, flujo_caja)
        tir_anual == irr(flujo_caja)
        viabilidad == IF van.num > 0 THEN "VIABLE" ELSE "NO VIABLE"
    IN  [van |-> Round2(van.num, van.den),
         tir_anual |-> tir_anual,
         tir_porcentaje |-> tir_anual,
         viabilidad |-> viabilidad,
         tasa_descuento |-> tasa,
         flujo_caja |-> flujo_caja]

\* costos_fijos in soles, costos_variables_unitarios and precio_venta_unitario
\* in tenths of a sol; the results are round(x, 2)
calcular_punto_equilibrio(costos_fijos, costos_variables_unitarios, precio_venta_unitario) ==
    IF precio_venta_unitario <= costos_variables_unitarios
    THEN [error |-> "El precio de venta debe ser mayor que los costos variables",
          punto_equilibrio_unidades |-> 0,
          punto_equilibrio_ingresos |-> 0]
    ELSE LET margen == precio_venta_unitario - costos_variables_unitarios
         IN  [punto_equilibrio_unidades |-> Round2(costos_fijos * 10, margen),
              punto_equilibrio_ingresos |->
                  Round2(costos_fijos * precio_venta_unitario, margen),
              margen_contribucion |-> margen * 10,
              margen_contribucion_porcentaje |->
                  Round2(margen * 100, precio_venta_unitario)]

\* the running sums of a schedule (np.cumsum)
Acumulado(flujo) == [k \in 1..Len(flujo) |-> Suma(SubSeq(flujo, 1, k))]

\* a variant of the payback search that wants the running sum above zero
PeriodoRecuperacionEstricto(flujo_acumulado) ==
    LET alcanzados == {k \in 1..Len(flujo_acumulado) : flujo_acumulado[k] > 0}
    IN  IF alcanzados = {} THEN NINGUNO
        ELSE Algun((CHOOSE k \in alcanzados : \A j \in alcanzados : k <= j) - 1)

\* Algun(first period index whose running sum is >= 0), or NINGUNO
PeriodoRecuperacion(flujo_acumulado) ==
    LET alcanzados == {k \in 1..Len(flujo_acumulado) : flujo_acumulado[k] >= 0}
    IN  IF alcanzados = {} THEN NINGUNO
        ELSE Algun((CHOOSE k \in alcanzados : \A j \in alcanzados : k <= j) - 1)

\* amounts in whole soles, tasa_descuento Algun(percent per year) or NINGUNO;
\* the returned amounts, percentages and index are round(x, 2)
analisis_rentabilidad_completo(inversion_total, ingresos_totales, costos_totales, duracion_meses, tasa_descuento) ==
    LET utilidad_bruta == ingresos_totales - costos_totales
        flujo == calcular_flujo_caja(inversion_total, ingresos_totales,
                                     costos_totales, duracion_meses)
        van_tir == calcular_van_tir(flujo, tasa_descuento)
        flujo_acumulado == Acumulado(flujo)
        \* 'tasa_descuento or default': a rate of 0 is replaced as well
        tasa_ir == IF EsNinguno(tasa_descuento) \/ tasa_descuento.valor = 0
                   THEN TASA_DESCUENTO_DEFAULT ELSE tasa_descuento.valor
        positivos == [k \in 1..Len(flujo) |-> IF flujo[k] > 0 THEN flujo[k] ELSE 0]
        van_flujos_positivos == npv(tasa_ir \div 12, positivos)
        inversion_inicial == Abs(flujo[1])
    IN  [utilidad_bruta |-> utilidad_bruta * 100,
         margen_utilidad |->
            IF ingresos_totales > 0
            THEN Round2(utilidad_bruta * 100, ingresos_totales) ELSE 0,
         roi |->
            IF costos_totales > 0
            THEN Round2(utilidad_bruta * 100, costos_totales) ELSE 0,
         van |-> van_tir.van,
         tir_anual |-> van_tir.tir_anual,
         tir_porcentaje |-> van_tir.tir_porcentaje,
         viabilidad |-> van_tir.viabilidad,
         periodo_recuperacion_meses |-> PeriodoRecuperacion(flujo_acumulado),
         indice_rentabilidad |->
            IF inversion_inicial > 0
            THEN Round2(van_flujos_positivos.num,
                        van_flujos_positivos.den * inversion_inicial)
            ELSE 0,
         flujo_caja |-> flujo,
         flujo_acumulado |-> flujo_acumulado]

-----------------------------------------------------------------------------
(* services/escenarios_service.py                                          *)

\* a variant of the default scenarios with the multipliers of Pesimista and
\* Optimista exchanged
EscenariosInvertidos ==
    [orden |-> <<"Pesimista", "Base", "Optimista">>,
     config |->
        [n \in {"Pesimista", "Base", "Optimista"} |->
            CASE n = "Pesimista" -> [factor_rendimiento |-> 120, factor_precio |-> 115,
                                     descripcion |-> "Condiciones desfavorables"]
              [] n = "Base"      -> [factor_rendimiento |-> 100, factor_precio |-> 100,
                                     descripcion |-> "Condiciones esperadas"]
              [] n = "Optimista" -> [factor_rendimiento |-> 80, factor_precio |-> 85,
                                     descripcion |-> "Condiciones favorables"]]]

\* A dict of scenarios: its keys in iteration (insertion) order and its
\* values; the multipliers are hundredths
EscenariosDefault ==
    [orden |-> <<"Pesimista", "Base", "Optimista">>,
     config |->
        [n \in {"Pesimista", "Base", "Optimista"} |->
            CASE n = "Pesimista" -> [factor_rendimiento |-> 80, factor_precio |-> 85,
                                     descripcion |-> "Condiciones desfavorables"]
              [] n = "Base"      -> [factor_rendimiento |-> 100, factor_precio |-> 100,
                                     descripcion |-> "Condiciones esperadas"]
              [] n = "Optimista" -> [factor_rendimiento |-> 120, factor_precio |-> 115,
                                     descripcion |-> "Condiciones favorables"]]]

\* a variant of _generar_flujo_simple whose last period carries the monthly
\* instalment, 0.7*costos/(meses - 1)
FlujoSimpleConCuota(costos, ingresos, meses) ==
    LET cuota == IF meses > 1 THEN ((costos * 7) \div 10) \div (meses - 1) ELSE 0
    IN  << -((costos * 3) \div 10) >> \o [i \in 1..(meses - 1) |-> -cuota]
        \o << ingresos - cuota >>

\* _generar_flujo_simple: whole soles, period i is element i+1
_generar_flujo_simple(costos, ingresos, meses) ==
    LET inicial == << -((costos * 3) \div 10) >>
        intermedios ==
            IF meses > 1
            THEN LET costo_mensual == ((costos * 7) \div 10) \div (meses - 1)
                 IN  [i \in 1..(meses - 1) |-> -costo_mensual]
            ELSE <<>>
        ingreso_final ==
            ingresos - (IF meses > 1 THEN ((costos * 7) \div 10) \div meses ELSE 0)
    IN  inicial \o intermedios \o <<ingreso_final>>

\* The result the body of the loop of simular_escenarios computes from the
\* frame m (the parameters and resultados) for a scenario with values config.
\* rendimiento_base is kg/ha, precio_base tenths of a sol, area hectares,
\* costos_totales soles, tasa_descuento percent per year.
ResultadoEscenario(m, config) ==
    LET rendimiento_ajustado == m.rendimiento_base * config.factor_rendimiento \* 1e-2 kg/ha
        precio_ajustado == m.precio_base * config.factor_precio            \* 1e-3 soles
        produccion == rendimiento_ajustado * m.area                        \* 1e-2 kg
        ingresos == (produccion * precio_ajustado) \div 100000             \* soles
        utilidad == ingresos - m.costos_totales
        tasa_mensual == m.tasa_descuento \div 12
        flujo == _generar_flujo_simple(m.costos_totales, ingresos, m.duracion_meses)
        van == npv(tasa_mensual, flujo)
    IN  [rendimiento |-> rendimiento_ajustado,
         precio |-> RoundHalfEven(precio_ajustado, 10),
         produccion |-> produccion,
         ingresos |-> ingresos * 100,
         costos |-> m.costos_totales,
         utilidad |-> utilidad * 100,
         margen |-> IF ingresos > 0 THEN Round2(utilidad * 100, ingresos) ELSE 0,
         roi |-> IF m.costos_totales > 0
                 THEN Round2(utilidad * 100, m.costos_totales) ELSE 0,
         van |-> Round2(van.num, van.den),
         descripcion |-> Get(config, "descripcion", ""),
         factores |-> [rendimiento |-> config.factor_rendimiento,
                       precio |-> config.factor_precio]]

\* a variant of the loop body that carries the adjusted yield and price over
\* to the next pass
CuerpoBucleEncadenado(m, nombre, config) ==
    [m EXCEPT !.rendimiento_base = (m.rendimiento_base * config.factor_rendimiento) \div 100,
              !.precio_base = (m.precio_base * config.factor_precio) \div 100,
              !.resultados =
                  [n \in (DOMAIN m.resultados) \cup {nombre} |->
                      IF n = nombre THEN ResultadoEscenario(m, config)
                      ELSE m.resultados[n]]]

\* One pass of the body of the loop over the frame m for the scenario nombre:
\* 'resultados[nombre] = {...}', everything else in the frame as it was
CuerpoBucle(m, nombre, config) ==
    [m EXCEPT !.resultados =
        [n \in (DOMAIN m.resultados) \cup {nombre} |->
            IF n = nombre THEN ResultadoEscenario(m, config) ELSE m.resultados[n]]]

\* the frame of simular_escenarios on entry: the parameters, and the empty
\* resultados
MarcoInicial(rendimiento_base, precio_base, area, costos_totales, tasa_descuento, duracion_meses) ==
    [rendimiento_base |-> rendimiento_base, precio_base |-> precio_base,
     area |-> area, costos_totales |-> costos_totales,
     tasa_descuento |-> tasa_descuento, duracion_meses |-> duracion_meses,
     resultados |-> <<>>]

-----------------------------------------------------------------------------
(* pages/4_Evaluación_Económica.py and pages/5_Simulador_de_Escenarios.py  *)

\* duracion_meses = max(int(duracion_dias / 30), 1)
DuracionMeses(duracion_dias) == Max(duracion_dias \div 30, 1)

\* The schedule the pages build inline.  The last append divides by
\* (duracion_meses - 1) with no guard: ZeroDivisionError when it is 0.
FlujoPagina(costo_total, ingreso_total, duracion_meses) ==
    IF duracion_meses - 1 = 0
    THEN Excepcion("ZeroDivisionError")
    ELSE LET cuota == ((costo_total * 7) \div 10) \div (duracion_meses - 1)
         IN  [flujo |-> << -((costo_total * 3) \div 10) >>
                        \o [i \in 1..(duracion_meses - 1) |-> -cuota]
                        \o << ingreso_total - cuota >>]

\* Page 4 from the stored producer data and prediction and the slider's rate:
\* the evaluation it stores in the session, or the exception that ends the
\* script before anything is stored.  produccion_probable in kg, prices in
\* tenths of a sol, costs in soles, rate percent per year; unrounded results
\* are fractions num/den.
Pagina4Evaluacion(datos, prediccion, tasa_descuento) ==
    LET ingreso_total == (prediccion.produccion_probable * datos.precio_venta_esperado) \div 10
        costo_total == datos.costo_total
        utilidad_bruta == ingreso_total - costo_total
        margen_utilidad == IF ingreso_total > 0
                           THEN [num |-> utilidad_bruta * 100, den |-> ingreso_total]
                           ELSE [num |-> 0, den |-> 1]
        equilibrio ==
            IF datos.precio_venta_esperado > 0
            THEN LET kg == [num |-> costo_total * 10, den |-> datos.precio_venta_esperado]
                 IN  [kg |-> kg, ha |-> [num |-> kg.num, den |-> kg.den * datos.area_disponible]]
            ELSE [kg |-> [num |-> 0, den |-> 1], ha |-> [num |-> 0, den |-> 1]]
        duracion_meses == DuracionMeses(datos.duracion_dias)
        costos_mensuales == FlujoPagina(costo_total, ingreso_total, duracion_meses)
    IN  IF costo_total = 0
        THEN Excepcion("ZeroDivisionError")      \* the ROI metric, utilidad/costo
        ELSE IF EsExcepcion(costos_mensuales)
        THEN costos_mensuales
        ELSE LET flujo == costos_mensuales.flujo
                 van == npv(tasa_descuento \div 12, flujo)
                 tir_anual == irr(flujo)
                 viabilidad_economica ==
                     IF van.num > 0 /\ utilidad_bruta > 0 THEN "VIABLE" ELSE "NO VIABLE"
             IN  [ingreso_total |-> ingreso_total,
                  costo_total |-> costo_total,
                  utilidad_bruta |-> utilidad_bruta,
                  margen_utilidad |-> margen_utilidad,
                  van |-> van,
                  tir |-> tir_anual,
                  punto_equilibrio_kg |-> equilibrio.kg,
                  punto_equilibrio_ha |-> equilibrio.ha,
                  periodo_recuperacion |-> PeriodoRecuperacion(Acumulado(flujo)),
                  viabilidad |-> viabilidad_economica,
                  tasa_descuento |-> tasa_descuento,
                  flujo_caja |-> flujo]

\* the three scenarios of page 5, multipliers in hundredths
EscenariosPagina == EscenariosDefault.config

\* one scenario of the loop of page 5: its result, or the exception
EscenarioPagina(datos, prediccion, evaluacion, config) ==
    LET rendimiento_ajustado == prediccion.rendimiento_probable * config.factor_rendimiento
        produccion_ajustada == rendimiento_ajustado * datos.area_disponible
        precio_ajustado == datos.precio_venta_esperado * config.factor_precio
        ingreso == (produccion_ajustada * precio_ajustado) \div 100000
        costo == datos.costo_total
        utilidad == ingreso - costo
        duracion_meses == DuracionMeses(datos.duracion_dias)
        flujo == FlujoPagina(costo, ingreso, duracion_meses)
    IN  IF EsExcepcion(flujo) THEN flujo
        ELSE [rendimiento |-> rendimiento_ajustado,
              produccion |-> produccion_ajustada,
              precio |-> precio_ajustado,
              ingreso |-> ingreso,
              costo |-> costo,
              utilidad |-> utilidad,
              margen |-> IF ingreso > 0 THEN [num |-> utilidad * 100, den |-> ingreso]
                         ELSE [num |-> 0, den |-> 1],
              roi |-> IF costo > 0 THEN [num |-> utilidad * 100, den |-> costo]
                      ELSE [num |-> 0, den |-> 1],
              van |-> npv(evaluacion.tasa_descuento \div 12, flujo.flujo)]

\* one step of a sensitivity sweep of page 5: the NPV with the revenue of the
\* step, factor in tenths (1 + var for var in linspace(-0.4, 0.4, 9))
PasoSensibilidad(datos, evaluacion, base, factor) ==
    LET ing_temp == (base * factor * datos.precio_venta_esperado) \div 100
        flujo_temp == FlujoPagina(datos.costo_total, ing_temp,
                                  DuracionMeses(datos.duracion_dias))
    IN  IF EsExcepcion(flujo_temp) THEN flujo_temp
        ELSE npv(evaluacion.tasa_descuento \div 12, flujo_temp.flujo)

FactoresSensibilidad == 6..14

\* Page 5: the results it stores as st.session_state.escenarios and the two
\* sweeps, or the exception that ends the script
Pagina5Escenarios(datos, prediccion, evaluacion) ==
    LET resultados == [n \in DOMAIN EscenariosPagina |->
                          EscenarioPagina(datos, prediccion, evaluacion, EscenariosPagina[n])]
        vans_rend == [f \in FactoresSensibilidad |->
                         PasoSensibilidad(datos, evaluacion,
                             prediccion.rendimiento_probable * datos.area_disponible, f)]
        vans_precio == [f \in FactoresSensibilidad |->
                           PasoSensibilidad(datos, evaluacion,
                               prediccion.produccion_probable, f)]
    IN  IF \E n \in DOMAIN resultados : EsExcepcion(resultados[n])
        THEN Excepcion("ZeroDivisionError")
        ELSE [escenarios |-> resultados, vans_rend |-> vans_rend,
              vans_precio |-> vans_precio]

-----------------------------------------------------------------------------
(* models/riesgo_model.py                                                  *)
(* Risk values are 1e-6 before rounding and 1e-4 after round(x, 4); the    *)
(* components of the climate data are hundredths.  datos is the reference  *)
(* data the constructor loaded: riesgos_climaticos, volatilidad_precios    *)
(* (1e-4) and the historical mean prices (tenths of a sol) of              *)
(* data/precios_historicos.csv, empty when the file is absent.            *)

\* pesos_ira, hundredths
pesos_ira == [climatico |-> 40, mercado |-> 35, produccion |-> 25]

\* umbrales, 1e-6
umbrales == [bajo |-> 330000, medio |-> 670000, alto |-> 1000000]

\* a variant of _categorizar_riesgo whose thresholds belong to the lower tier
CategorizarInclusivo(valor_riesgo) ==
    IF valor_riesgo <= umbrales.bajo THEN "Bajo"
    ELSE IF valor_riesgo <= umbrales.medio THEN "Medio"
    ELSE "Alto"

_categorizar_riesgo(valor_riesgo) ==
    IF valor_riesgo < umbrales.bajo THEN "Bajo"
    ELSE IF valor_riesgo < umbrales.medio THEN "Medio"
    ELSE "Alto"

\* the categorisation inside calcular_ira
CategoriaIra(ira) ==
    IF ira < umbrales.bajo THEN "BAJO"
    ELSE IF ira < umbrales.medio THEN "MEDIO"
    ELSE "ALTO"

meses_riesgo_alto ==
    [r \in {"Lima", "Arequipa", "Junin", "Cusco", "Piura"} |->
        CASE r = "Lima" -> {6, 7, 8, 9}
          [] r = "Arequipa" -> {6, 7, 8}
          [] r = "Junin" -> {1, 2, 3, 12}
          [] r = "Cusco" -> {1, 2, 3, 12}
          [] r = "Piura" -> {1, 2, 3, 4}]

\* hundredths
_calcular_factor_estacional(region, mes) ==
    IF mes \in Get(meses_riesgo_alto, region, {}) THEN 115 ELSE 100

\* the region whose data calcular_riesgo_climatico reads
RegionClimatica(datos, region) ==
    IF region \notin DOMAIN datos.riesgos_climaticos THEN "Lima" ELSE region

\* the four components of the climate risk, hundredths
ComponentesClimaticos(datos, region) ==
    LET riesgos == datos.riesgos_climaticos[RegionClimatica(datos, region)]
        riesgo_plagas == 25 + (Get(riesgos, "temperatura_promedio", 20) - 15)
    IN  [sequia |-> Get(riesgos, "sequia", 30),
         heladas |-> Get(riesgos, "heladas", 20),
         lluvias |-> Get(riesgos, "inundacion", 25),
         plagas |-> Max(15, Min(riesgo_plagas, 45))]

\* riesgo_total before rounding, 1e-6; mes_siembra is Algun(month) or NINGUNO
RiesgoClimaticoTotal(datos, region, mes_siembra) ==
    LET componentes == ComponentesClimaticos(datos, region)
        ponderado == componentes.sequia * 35 + componentes.heladas * 25
                     + componentes.lluvias * 25 + componentes.plagas * 15
    IN  IF EsNinguno(mes_siembra) \/ mes_siembra.valor = 0
        THEN ponderado * 100
        ELSE ponderado * _calcular_factor_estacional(RegionClimatica(datos, region),
                                                     mes_siembra.valor)

calcular_riesgo_climatico(datos, region, mes_siembra) ==
    LET riesgo_total == RiesgoClimaticoTotal(datos, region, mes_siembra)
    IN  [componentes |-> ComponentesClimaticos(datos, region),
         riesgo_total |-> RoundHalfEven(riesgo_total, 100),
         categoria |-> _categorizar_riesgo(riesgo_total)]

\* precio_historico: Algun(mean price) when the file has the crop, else NINGUNO
PrecioHistorico(datos, cultivo) ==
    IF cultivo \in DOMAIN datos.precios_historicos
    THEN Algun(datos.precios_historicos[cultivo]) ELSE NINGUNO

\* 'desviacion_precio > 0.3'; precio_esperado is Algun(tenths of a sol) or
\* NINGUNO, and a price of 0 is falsy
PrecioPocoRealista(datos, cultivo, precio_esperado) ==
    LET precio_historico == PrecioHistorico(datos, cultivo)
    IN  /\ ~EsNinguno(precio_esperado)
        /\ ~EsNinguno(precio_historico)
        /\ precio_esperado.valor # 0
        /\ precio_historico.valor # 0
        /\ 10 * Abs(precio_esperado.valor - precio_historico.valor)
               > 3 * precio_historico.valor

\* riesgo_ajustado before rounding, 1e-6
RiesgoMercadoAjustado(datos, cultivo, precio_esperado) ==
    LET volatilidad == Get(datos.volatilidad_precios, cultivo, 3000)
    IN  IF PrecioPocoRealista(datos, cultivo, precio_esperado)
        THEN volatilidad * 120 ELSE volatilidad * 100

calcular_riesgo_mercado(datos, cultivo, precio_esperado) ==
    LET volatilidad == Get(datos.volatilidad_precios, cultivo, 3000)
        precio_historico == PrecioHistorico(datos, cultivo)
        riesgo_ajustado == RiesgoMercadoAjustado(datos, cultivo, precio_esperado)
        desviacion_precio ==
            IF /\ ~EsNinguno(precio_esperado) /\ ~EsNinguno(precio_historico)
               /\ precio_esperado.valor # 0 /\ precio_historico.valor # 0
            THEN RoundHalfEven(
                     Abs(precio_esperado.valor - precio_historico.valor) * 10000,
                     precio_historico.valor)
            ELSE 0
    IN  [volatilidad |-> volatilidad,
         riesgo_ajustado |-> RoundHalfEven(riesgo_ajustado, 100),
         precio_historico |-> precio_historico,
         desviacion_precio |-> desviacion_precio,
         categoria |-> _categorizar_riesgo(riesgo_ajustado)]

\* riesgo_produccion = min(cv / 2, 0.8) before rounding, 1e-6; the yields are
\* kg/ha
RiesgoProduccion(rendimiento_minimo, rendimiento_probable, rendimiento_maximo) ==
    LET rango == rendimiento_maximo - rendimiento_minimo
    IN  IF rendimiento_probable > 0
        THEN Min((rango * 500000) \div rendimiento_probable, 800000)
        ELSE 0

\* margen_seguridad divides by rendimiento_probable with no guard
calcular_riesgo_produccion(rendimiento_minimo, rendimiento_probable, rendimiento_maximo) ==
    LET rango == rendimiento_maximo - rendimiento_minimo
        riesgo_produccion == RiesgoProduccion(rendimiento_minimo, rendimiento_probable,
                                              rendimiento_maximo)
    IN  IF rendimiento_probable = 0
        THEN Excepcion("ZeroDivisionError")
        ELSE [coeficiente_variacion |-> RoundHalfEven(rango * 10000, rendimiento_probable),
              riesgo |-> RoundHalfEven(riesgo_produccion, 100),
              margen_seguridad |->
                  RoundHalfEven((rendimiento_probable - rendimiento_minimo) * 10000,
                                rendimiento_probable),
              estabilidad |-> IF 10 * rango < 3 * rendimiento_probable THEN "Alta"
                              ELSE IF 10 * rango < 6 * rendimiento_probable THEN "Media"
                              ELSE "Baja",
              categoria |-> _categorizar_riesgo(riesgo_produccion)]

\* the recommendations, each by a short tag, in the order they are appended
generar_recomendaciones(riesgo_climatico, riesgo_mercado, riesgo_produccion, categoria_ira) ==
    LET componentes_clim == riesgo_climatico.componentes
        Si(cond, tag) == IF cond THEN <<tag>> ELSE <<>>
    IN  Si(componentes_clim.sequia > 40, "sequia")
        \o Si(componentes_clim.heladas > 30, "heladas")
        \o Si(componentes_clim.lluvias > 40, "lluvias")
        \o Si(componentes_clim.plagas > 40, "plagas")
        \o Si(riesgo_mercado.volatilidad > 3500, "volatilidad")
        \o Si(Get(riesgo_mercado, "desviacion_precio", 0) > 3000, "precio")
        \o Si(riesgo_produccion.riesgo > 5000, "variabilidad")
        \o Si(riesgo_produccion.margen_seguridad < 3000, "margen")
        \o << IF categoria_ira = "ALTO" THEN "general alto"
              ELSE IF categoria_ira = "MEDIO" THEN "general medio"
              ELSE "general bajo" >>

\* the IRA before rounding, 1e-6, from the rounded components
IraPonderado(riesgo_clim, riesgo_merc, riesgo_prod) ==
    riesgo_clim.riesgo_total * pesos_ira.climatico
    + riesgo_merc.riesgo_ajustado * pesos_ira.mercado
    + riesgo_prod.riesgo * pesos_ira.produccion

calcular_ira(datos, region, cultivo, rendimiento_minimo, rendimiento_probable, rendimiento_maximo, precio_esperado, mes_siembra) ==
    LET riesgo_clim == calcular_riesgo_climatico(datos, region, mes_siembra)
        riesgo_merc == calcular_riesgo_mercado(datos, cultivo, precio_esperado)
        riesgo_prod == calcular_riesgo_produccion(rendimiento_minimo,
                           rendimiento_probable, rendimiento_maximo)
    IN  IF EsExcepcion(riesgo_prod)
        THEN riesgo_prod
        ELSE LET ira == IraPonderado(riesgo_clim, riesgo_merc, riesgo_prod)
                 categoria == CategoriaIra(ira)
             IN  [ira |-> RoundHalfEven(ira, 100),
                  categoria |-> categoria,
                  componentes |-> [climatico |-> riesgo_clim, mercado |-> riesgo_merc,
                                   produccion |-> riesgo_prod],
                  pesos |-> pesos_ira,
                  recomendaciones |->
                      generar_recomendaciones(riesgo_clim, riesgo_merc, riesgo_prod,
                                              categoria)]

-----------------------------------------------------------------------------
(* services/riesgo_service.py                                              *)
(* A proposed measure is the set of the keys of factores_reduccion that    *)
(* its lower-cased text contains; ira is 1e-4, the factors are hundredths. *)

\* 'ira < 0.33', 'ira < 0.67' on an index in 1e-6
_categorizar_ira(ira) ==
    IF ira < 330000 THEN "BAJO"
    ELSE IF ira < 670000 THEN "MEDIO"
    ELSE "ALTO"

\* reduccion_total and ira_proyectado before rounding are hundredths and 1e-6;
\* the returned ira and reduccion_absoluta are round(x, 4), reduccion_relativa
\* is round(x, 2) percent
evaluar_mitigacion_riesgos(ira_actual, medidas_propuestas) ==
    LET factores_reduccion ==
            [seguro |-> 15, riego |-> 12, tecnologia |-> 10, diversificacion |-> 8,
             capacitacion |-> 6, monitoreo |-> 5]
        claves == <<"seguro", "riego", "tecnologia", "diversificacion",
                    "capacitacion", "monitoreo">>
        \* the inner loop ends at the first key, in the order of the dict, that
        \* the measure contains
        Efectiva(medida) == medida # {}
        Factor(medida) ==
            LET i == CHOOSE i \in 1..Len(claves) :
                         /\ claves[i] \in medida
                         /\ \A j \in 1..(i - 1) : claves[j] \notin medida
            IN  factores_reduccion[claves[i]]
        efectivas == SelectSeq(medidas_propuestas, Efectiva)
        suma == Suma([i \in 1..Len(efectivas) |-> Factor(efectivas[i])])
        reduccion_total == Min(suma, 35)
        ira_proyectado == Max(ira_actual * (100 - reduccion_total), 100000)
    IN  [ira_actual |-> ira_actual,
         ira_proyectado |-> RoundHalfEven(ira_proyectado, 100),
         reduccion_absoluta |-> RoundHalfEven(ira_actual * 100 - ira_proyectado, 100),
         reduccion_relativa |-> reduccion_total * 100,
         medidas_efectivas |->
            [i \in 1..Len(efectivas) |->
                [medida |-> efectivas[i], reduccion_estimada |-> Factor(efectivas[i])]],
         nueva_categoria |-> _categorizar_ira(ira_proyectado)]

-----------------------------------------------------------------------------
(* services/recomendacion_service.py                                       *)
(* Amounts (van, ingreso_total) are cents, percentages (roi, margen)       *)
(* hundredths of a percent, punto_equilibrio_kg hundredths of a kg, ira    *)
(* and volatilidad 1e-4.                                                   *)

\* the record d without the keys outside K
Restringir(d, K) == [k \in (DOMAIN d) \cap K |-> d[k]]

\* a variant of _evaluar_rentabilidad whose ROI and margin thresholds are
\* inclusive
RentabilidadInclusiva(evaluacion) ==
    LET van == Get(evaluacion, "van", 0)
        roi == Get(evaluacion, "roi", 0)
        margen == Get(evaluacion, "margen_utilidad", 0)
        puntos_van == IF van > 0 THEN 15 ELSE 0
        puntos_roi == IF roi >= 5000 THEN 15
                      ELSE IF roi >= 3000 THEN 12
                      ELSE IF roi >= 2000 THEN 10
                      ELSE IF roi >= 1000 THEN 7
                      ELSE IF roi > 0 THEN 5
                      ELSE 0
        puntos_margen == IF margen >= 3000 THEN 10
                         ELSE IF margen >= 2000 THEN 8
                         ELSE IF margen >= 1500 THEN 7
                         ELSE IF margen >= 1000 THEN 5
                         ELSE IF margen > 0 THEN 3
                         ELSE 0
    IN  Min(puntos_van + puntos_roi + puntos_margen, 40)

_evaluar_rentabilidad(evaluacion) ==
    LET van == Get(evaluacion, "van", 0)
        roi == Get(evaluacion, "roi", 0)
        margen == Get(evaluacion, "margen_utilidad", 0)
        puntos_van == IF van > 0 THEN 15 ELSE 0
        puntos_roi == IF roi > 5000 THEN 15
                      ELSE IF roi > 3000 THEN 12
                      ELSE IF roi > 2000 THEN 10
                      ELSE IF roi > 1000 THEN 7
                      ELSE IF roi > 0 THEN 5
                      ELSE 0
        puntos_margen == IF margen > 3000 THEN 10
                         ELSE IF margen > 2000 THEN 8
                         ELSE IF margen > 1500 THEN 7
                         ELSE IF margen > 1000 THEN 5
                         ELSE IF margen > 0 THEN 3
                         ELSE 0
    IN  Min(puntos_van + puntos_roi + puntos_margen, 40)

\* a variant of _evaluar_riesgo that rewards a low index with 35 points
EvaluarRiesgoGeneroso(analisis) ==
    LET ira == Get(analisis, "ira", 10000)
    IN  IF ira < 3300 THEN 35
        ELSE IF ira < 6700 THEN 15
        ELSE 0

_evaluar_riesgo(analisis) ==
    LET ira == Get(analisis, "ira", 10000)
    IN  IF ira < 3300 THEN 30
        ELSE IF ira < 4000 THEN 25
        ELSE IF ira < 5000 THEN 22
        ELSE IF ira < 6700 THEN 15
        ELSE IF ira < 8000 THEN 8
        ELSE 0

\* escenarios.get(nombre, {}).get('van', default)
VanDeEscenario(escenarios, nombre, default) ==
    IF nombre \in DOMAIN escenarios
    THEN Get(escenarios[nombre], "van", default)
    ELSE default

\* a variant of _evaluar_escenarios that measures the spread of the scenarios
\* without abs()
EscenariosSinAbs(escenarios) ==
    LET van_pesimista == VanDeEscenario(escenarios, "Pesimista", -99999900)
        van_base == VanDeEscenario(escenarios, "Base", 0)
        van_optimista == VanDeEscenario(escenarios, "Optimista", 0)
        puntos_pesimista == IF van_pesimista > 0 THEN 10
                            ELSE IF van_pesimista > -100000 THEN 5
                            ELSE 0
        dif == van_optimista - van_pesimista
        puntos_estabilidad ==
            IF van_base # 0
            THEN IF dif < van_base THEN 10
                 ELSE IF 2 * dif < 3 * van_base THEN 8
                 ELSE IF dif < 2 * van_base THEN 6
                 ELSE 2
            ELSE 0
    IN  Min(puntos_pesimista + puntos_estabilidad, 20)

_evaluar_escenarios(escenarios) ==
    LET van_pesimista == VanDeEscenario(escenarios, "Pesimista", -99999900)
        van_base == VanDeEscenario(escenarios, "Base", 0)
        van_optimista == VanDeEscenario(escenarios, "Optimista", 0)
        puntos_pesimista == IF van_pesimista > 0 THEN 10
                            ELSE IF van_pesimista > -100000 THEN 5
                            ELSE 0
        \* variabilidad = dif / abs(van_base)
        dif == Abs(van_optimista - van_pesimista)
        puntos_estabilidad ==
            IF van_base # 0
            THEN IF dif < Abs(van_base) THEN 10
                 ELSE IF 2 * dif < 3 * Abs(van_base) THEN 8
                 ELSE IF dif < 2 * Abs(van_base) THEN 6
                 ELSE 2
            ELSE 0
    IN  Min(puntos_pesimista + puntos_estabilidad, 20)

\* riesgos.get('componentes', {}).get('mercado', {}).get('volatilidad', 0.5)
VolatilidadDeRiesgos(riesgos) ==
    IF "componentes" \in DOMAIN riesgos
    THEN IF "mercado" \in DOMAIN riesgos.componentes
         THEN Get(riesgos.componentes.mercado, "volatilidad", 5000)
         ELSE 5000
    ELSE 5000

_evaluar_mercado(evaluacion, riesgos) ==
    LET pe_kg == Get(evaluacion, "punto_equilibrio_kg", 99999900)
        ingresos == Get(evaluacion, "ingreso_total", 0)
        puntos_equilibrio == IF 2 * pe_kg < ingresos THEN 5
                             ELSE IF 10 * pe_kg < 7 * ingresos THEN 3
                             ELSE IF 10 * pe_kg < 9 * ingresos THEN 1
                             ELSE 0
        riesgo_mercado == VolatilidadDeRiesgos(riesgos)
        puntos_volatilidad == IF riesgo_mercado < 2000 THEN 5
                              ELSE IF riesgo_mercado < 3000 THEN 4
                              ELSE IF riesgo_mercado < 4000 THEN 2
                              ELSE 1
    IN  Min(puntos_equilibrio + puntos_volatilidad, 10)

_detalle_rentabilidad(evaluacion) ==
    LET van == Get(evaluacion, "van", 0)
        roi == Get(evaluacion, "roi", 0)
        margen == Get(evaluacion, "margen_utilidad", 0)
    IN  IF van > 0 /\ roi > 3000 /\ margen > 2000
        THEN "Excelente rentabilidad en todos los indicadores"
        ELSE IF van > 0 /\ roi > 1500 THEN "Rentabilidad satisfactoria"
        ELSE IF van > 0 THEN "Rentabilidad positiva pero ajustada"
        ELSE "Rentabilidad insuficiente"

_detalle_riesgo(analisis) ==
    LET categoria == Get(analisis, "categoria", "ALTO")
    IN  IF categoria = "BAJO" THEN "Nivel de riesgo bajo y manejable"
        ELSE IF categoria = "MEDIO" THEN "Nivel de riesgo moderado, requiere monitoreo"
        ELSE "Nivel de riesgo alto, se requieren medidas de mitigacion"

_detalle_escenarios(escenarios) ==
    LET van_pes == VanDeEscenario(escenarios, "Pesimista", 0)
    IN  IF van_pes > 0 THEN "Proyecto viable incluso en escenario pesimista"
        ELSE IF van_pes > -500000 THEN "Vulnerabilidad moderada en escenario pesimista"
        ELSE "Alta vulnerabilidad en condiciones adversas"

_detalle_mercado(evaluacion, riesgos) ==
    LET volatilidad == VolatilidadDeRiesgos(riesgos)
    IN  IF volatilidad < 2500 THEN "Mercado estable con baja volatilidad"
        ELSE IF volatilidad < 4000 THEN "Volatilidad de precios moderada"
        ELSE "Alta volatilidad de precios, considerar estrategias de cobertura"

calcular_puntuacion_proyecto(evaluacion_economica, analisis_riesgos, resultados_escenarios) ==
    LET puntos_rentabilidad == _evaluar_rentabilidad(evaluacion_economica)
        puntos_riesgo == _evaluar_riesgo(analisis_riesgos)
        puntos_escenarios == _evaluar_escenarios(resultados_escenarios)
        puntos_mercado == _evaluar_mercado(evaluacion_economica, analisis_riesgos)
        puntuacion_total == puntos_rentabilidad + puntos_riesgo
                            + puntos_escenarios + puntos_mercado
    IN  [puntuacion_total |-> puntuacion_total,
         puntos_rentabilidad |-> puntos_rentabilidad,
         puntos_riesgo |-> puntos_riesgo,
         puntos_escenarios |-> puntos_escenarios,
         puntos_mercado |-> puntos_mercado,
         porcentaje |-> puntuacion_total,
         detalles |->
            [rentabilidad |-> _detalle_rentabilidad(evaluacion_economica),
             riesgo |-> _detalle_riesgo(analisis_riesgos),
             escenarios |-> _detalle_escenarios(resultados_escenarios),
             mercado |-> _detalle_mercado(evaluacion_economica, analisis_riesgos)]]

\* umbrales of RecomendacionService, points
umbrales_puntuacion ==
    [puntuacion_excelente |-> 80, puntuacion_buena |-> 60, puntuacion_regular |-> 40]

\* desviacion = max(porcentajes) - min(porcentajes) with porcentajes p/m*100;
\* every p/m*100 is taken in 1/1.2 percent (p * 120/m), so 20 % is 24
_calcular_nivel_confianza(puntuacion) ==
    LET porcentajes == {puntuacion.puntos_rentabilidad * 3, puntuacion.puntos_riesgo * 4,
                        puntuacion.puntos_escenarios * 6, puntuacion.puntos_mercado * 12}
        maximo == CHOOSE x \in porcentajes : \A y \in porcentajes : y <= x
        minimo == CHOOSE x \in porcentajes : \A y \in porcentajes : x <= y
        desviacion == maximo - minimo
    IN  IF desviacion < 24 THEN "Muy Alta"
        ELSE IF desviacion < 48 THEN "Alta"
        ELSE IF desviacion < 72 THEN "Media"
        ELSE "Baja (criterios desbalanceados)"

\* a variant of _generar_acciones_inmediatas whose first tier starts at 85
AccionesDesde85(puntaje, puntuacion) ==
    IF puntaje >= 85
    THEN <<"Iniciar preparacion de terreno segun cronograma",
           "Asegurar disponibilidad de insumos de calidad",
           "Establecer calendario de monitoreo fitosanitario">>
    ELSE IF puntaje >= 60
    THEN <<"Contratar seguro agricola antes de iniciar",
           "Implementar sistema de riego eficiente",
           "Establecer plan de contingencia para riesgos identificados">>
    ELSE IF puntaje >= 40
    THEN <<"Reevaluar alternativas de cultivo para la region",
           "Buscar asesoria tecnica especializada",
           "Realizar analisis de mercado mas profundo">>
    ELSE <<"Suspender el proyecto temporalmente",
           "Evaluar cultivos alternativos completamente diferentes",
           "Considerar asociarse con productores experimentados">>

_generar_acciones_inmediatas(puntaje, puntuacion) ==
    IF puntaje >= 80
    THEN <<"Iniciar preparacion de terreno segun cronograma",
           "Asegurar disponibilidad de insumos de calidad",
           "Establecer calendario de monitoreo fitosanitario">>
    ELSE IF puntaje >= 60
    THEN <<"Contratar seguro agricola antes de iniciar",
           "Implementar sistema de riego eficiente",
           "Establecer plan de contingencia para riesgos identificados">>
    ELSE IF puntaje >= 40
    THEN <<"Reevaluar alternativas de cultivo para la region",
           "Buscar asesoria tecnica especializada",
           "Realizar analisis de mercado mas profundo">>
    ELSE <<"Suspender el proyecto temporalmente",
           "Evaluar cultivos alternativos completamente diferentes",
           "Considerar asociarse con productores experimentados">>

\* the recommendation with the heading of its rationale text as detalle
generar_recomendacion_final(puntuacion) ==
    LET puntaje == puntuacion.puntuacion_total
        nivel ==
            IF puntaje >= umbrales_puntuacion.puntuacion_excelente
            THEN [recomendacion |-> "CONVIENE SEMBRAR ESTE CULTIVO",
                  color |-> "#95E1D3",
                  detalle |-> "PROYECTO ALTAMENTE RECOMENDADO"]
            ELSE IF puntaje >= umbrales_puntuacion.puntuacion_buena
            THEN [recomendacion |-> "CONVIENE SEMBRAR CON PRECAUCIONES",
                  color |-> "#FFD93D",
                  detalle |-> "PROYECTO VIABLE CON CONSIDERACIONES"]
            ELSE IF puntaje >= umbrales_puntuacion.puntuacion_regular
            THEN [recomendacion |-> "SE RECOMIENDA ROTAR O AJUSTAR CULTIVO",
                  color |-> "#FFA500",
                  detalle |-> "PROYECTO CON RIESGOS SIGNIFICATIVOS"]
            ELSE [recomendacion |-> "NO SE RECOMIENDA SEMBRAR EN ESTA CAMPANA",
                  color |-> "#FF6B6B",
                  detalle |-> "PROYECTO NO RECOMENDADO"]
    IN  [recomendacion |-> nivel.recomendacion,
         color |-> nivel.color,
         detalle |-> nivel.detalle,
         nivel_confianza |-> _calcular_nivel_confianza(puntuacion),
         acciones_inmediatas |-> _generar_acciones_inmediatas(puntaje, puntuacion)]

\* the recommendation page 6 derives from its own total, with the heading of
\* the rationale text as detalle
Pagina6Recomendacion(puntuacion_total) ==
    IF puntuacion_total >= 80
    THEN [recomendacion |-> "CONVIENE SEMBRAR ESTE CULTIVO",
          color |-> "#95E1D3",
          detalle |-> "PROYECTO ALTAMENTE RECOMENDADO"]
    ELSE IF puntuacion_total >= 60
    THEN [recomendacion |-> "CONVIENE SEMBRAR CON PRECAUCIONES",
          color |-> "#FFD93D",
          detalle |-> "PROYECTO VIABLE CON CONSIDERACIONES"]
    ELSE IF puntuacion_total >= 40
    THEN [recomendacion |-> "SE RECOMIENDA ROTAR O AJUSTAR CULTIVO",
          color |-> "#FFA500",
          detalle |-> "PROYECTO CON RIESGOS SIGNIFICATIVOS"]
    ELSE [recomendacion |-> "NO SE RECOMIENDA SEMBRAR EN ESTA CAMPANA",
          color |-> "#FF6B6B",
          detalle |-> "PROYECTO NO RECOMENDADO"]

\* the scoring of page 6 on the stored artifacts, and what it stores as
\* recomendacion_final.  utilidad_bruta and costo_total in soles, precio in
\* tenths of a sol, yields in kg/ha; a division by zero ends the page.
Pagina6Puntuacion(datos, prediccion, riesgos, evaluacion, escenarios) ==
    IF evaluacion.costo_total = 0 \/ prediccion.rendimiento_minimo = 0
    THEN Excepcion("ZeroDivisionError")
    ELSE
    LET utilidad == evaluacion.utilidad_bruta
        costo == evaluacion.costo_total
        margen == evaluacion.margen_utilidad
        puntos_rentabilidad ==
            (IF evaluacion.van > 0 THEN 15 ELSE 0)
            + (IF utilidad * 100 > 50 * costo THEN 15
               ELSE IF utilidad * 100 > 20 * costo THEN 10
               ELSE IF utilidad * 100 > 0 THEN 5 ELSE 0)
            + (IF margen > 3000 THEN 10
               ELSE IF margen > 1500 THEN 7
               ELSE IF margen > 0 THEN 3 ELSE 0)
        ira == riesgos.ira
        puntos_riesgo == IF ira < 3300 THEN 30
                         ELSE IF ira < 5000 THEN 22
                         ELSE IF ira < 6700 THEN 15
                         ELSE IF ira < 8000 THEN 8
                         ELSE 0
        van_pesimista == escenarios.Pesimista.van
        van_base == escenarios.Base.van
        van_optimista == escenarios.Optimista.van
        dif == van_optimista - van_pesimista
        \* variabilidad = dif / van_base < k, van_base of either sign
        Menor(k) == IF van_base > 0 THEN dif < k * van_base
                    ELSE IF van_base < 0 THEN dif > k * van_base
                    ELSE FALSE
        puntos_escenarios ==
            (IF van_pesimista > 0 THEN 10 ELSE 0)
            + (IF Menor(1) THEN 10 ELSE IF Menor(2) THEN 6 ELSE 2)
        rend_probable == prediccion.rendimiento_probable
        rend_minimo == prediccion.rendimiento_minimo
        puntos_mercado ==
            (IF datos.precio_venta_esperado > 15 THEN 5 ELSE 2)
            + (IF 2 * (rend_probable - rend_minimo) > rend_minimo THEN 5
               ELSE IF 5 * (rend_probable - rend_minimo) > rend_minimo THEN 3
               ELSE 1)
        puntuacion_total == puntos_rentabilidad + puntos_riesgo
                            + puntos_escenarios + puntos_mercado
        nivel == Pagina6Recomendacion(puntuacion_total)
    IN  [puntuacion_total |-> puntuacion_total,
         porcentaje |-> puntuacion_total,
         recomendacion |-> nivel.recomendacion,
         puntos_rentabilidad |-> puntos_rentabilidad,
         puntos_riesgo |-> puntos_riesgo,
         puntos_escenarios |-> puntos_escenarios,
         puntos_mercado |-> puntos_mercado,
         detalle |-> nivel.detalle,
         color |-> nivel.color]

-----------------------------------------------------------------------------
(* Inputs of the yield stage                                               *)

CultivosEntrada == {"Maiz", "Papa", "Arroz", "Yuca"}

RegionesEntrada == {"Lima", "Cusco", "Tumbes"}

EscalaEntrada == {1, 5, 10}

\* the crop lists comparar_cultivos is given
ListasDeCultivos ==
    {<<"Maiz", "Papa">>, <<"Maiz", "Yuca", "Arroz">>, <<"Yuca">>, <<>>}

\* the parametros dict of the service, whole and with keys missing
ParametrosEntrada ==
    {[fertilidad_suelo |-> 5, disponibilidad_agua |-> 10, tecnologia |-> 1,
      experiencia |-> 0],
     [fertilidad_suelo |-> 10, experiencia |-> 30],
     [tecnologia |-> 10]}

ExperienciaEntrada == {0, 10, 20, 50}

MesesEntrada == 1..12

AreasEntrada == {1, 2}

-----------------------------------------------------------------------------
(* Inputs of the financial and scenario stages                             *)

\* soles; multiples of 60, so that 30 %, 70 %/(n-1) and 70 %/n are whole
CostosEntrada == {0, 60, 300}

IngresosEntrada == {0, 50, 100, 400, 1000}

MesesDuracion == {1, 2, 3}

\* percent per year
TasasEntrada == {0, 12, 24}

TasasOpcionales == {NINGUNO} \cup {Algun(t) : t \in TasasEntrada}

\* kg/ha
RendimientosEntrada == {0, 100, 200}

\* tenths of a sol
PreciosEntrada == {5, 20}

\* the scenario values a caller's dict may hold
ConfigLlamador ==
    [n \in {"Pesimista", "Base", "Optimista", "Estres"} |->
        IF n = "Estres"
        THEN [factor_rendimiento |-> 50, factor_precio |-> 100]
        ELSE EscenariosDefault.config[n]]

\* the longest dict of scenarios a caller passes
MaxEscenarios == 3

\* the dicts a caller passes: up to MaxEscenarios distinct names, in any order
DictsLlamador ==
    LET ordenes == UNION {[1..k -> DOMAIN ConfigLlamador] : k \in 1..MaxEscenarios}
        sinRepetir == {o \in ordenes : \A i, j \in DOMAIN o : o[i] = o[j] => i = j}
    IN  {[orden |-> o, config |-> [n \in {o[i] : i \in DOMAIN o} |-> ConfigLlamador[n]]] :
            o \in sinRepetir}

\* days of campaign, cosecha after siembra
DiasEntrada == {15, 45, 60, 90, 119}

\* kg, as page 2 stores it
ProduccionEntrada == {100, 200, 400}

DatosProductorEntrada ==
    [precio_venta_esperado : PreciosEntrada, area_disponible : AreasEntrada,
     costo_total : CostosEntrada, duracion_dias : DiasEntrada]

-----------------------------------------------------------------------------
(* Inputs of the risk stage                                                *)

\* the data the constructor falls back to when data/*.csv are absent
DatosPorDefecto ==
    [riesgos_climaticos |->
        [r \in {"Lima", "Arequipa", "La Libertad"} |->
            CASE r = "Lima" -> [sequia |-> 30, heladas |-> 10, inundacion |-> 20]
              [] r = "Arequipa" -> [sequia |-> 40, heladas |-> 30, inundacion |-> 15]
              [] r = "La Libertad" -> [sequia |-> 25, heladas |-> 15, inundacion |-> 30]],
     volatilidad_precios |->
        [c \in CultivosEstacionales |->
            CASE c = "Maiz" -> 2500 [] c = "Papa" -> 3500 [] c = "Arroz" -> 2000
              [] c = "Trigo" -> 2200 [] c = "Quinua" -> 3000 [] c = "Esparrago" -> 2800
              [] c = "Palta" -> 3200 [] c = "Cafe" -> 4000 [] c = "Cacao" -> 3800
              [] c = "Algodon" -> 3500],
     precios_historicos |-> <<>>]

\* data as loaded from files that describe a harsh climate and market
DatosDeArchivo ==
    [riesgos_climaticos |->
        [r \in {"Lima", "Arequipa"} |->
            CASE r = "Lima" -> [sequia |-> 100, heladas |-> 100, inundacion |-> 100,
                                temperatura_promedio |-> 40,
                                precipitacion_promedio |-> 10]
              [] r = "Arequipa" -> [sequia |-> 10, heladas |-> 5, inundacion |-> 5,
                                    temperatura_promedio |-> 2,
                                    precipitacion_promedio |-> 50]],
     volatilidad_precios |-> [c \in {"Maiz", "Cafe"} |->
                                 CASE c = "Maiz" -> 1200 [] c = "Cafe" -> 10000],
     precios_historicos |-> [c \in {"Maiz", "Cafe"} |->
                                CASE c = "Maiz" -> 20 [] c = "Cafe" -> 100]]

DatosEntrada == {DatosPorDefecto, DatosDeArchivo}

\* (minimo, probable, maximo) in kg/ha, at most 4000 apart and with an exact
\* risk in 1e-6
RendimientosTriples ==
    {<<400, 800, 1200>>, <<700, 800, 900>>, <<1000, 1000, 5000>>,
     <<170, 500, 500>>, <<100, 500, 500>>, <<1900, 1000, 2100>>, <<0, 0, 0>>}

ValoresRiesgo ==
    {0, 329999, 330000, 330001, 500000, 669999, 670000, 670001, 1000000, 1200000}

-----------------------------------------------------------------------------
(* Inputs of the scoring stage: complete artifacts, and the same with      *)
(* keys missing                                                            *)

\* the dicts d restricted to every set of keys that keeps the keys of Fijas
ConFaltantes(dicts, Fijas) ==
    UNION {{Restringir(d, K \cup Fijas) : K \in SUBSET {k \in DOMAIN d : k \notin Fijas}} :
              d \in dicts}

EvaluacionesCompletas ==
    [van : {-100000, 50000}, roi : {500, 2500, 6000},
     margen_utilidad : {500, 2500, 4000}]
    \cup [van : {50000}, roi : {6000}, margen_utilidad : {4000},
          punto_equilibrio_kg : {532000}, ingreso_total : {1500000}]

EvaluacionesEntrada ==
    ConFaltantes(EvaluacionesCompletas, {"punto_equilibrio_kg", "ingreso_total"})

RiesgosCompletos ==
    {[ira |-> i, categoria |-> (IF i < 3300 THEN "BAJO" ELSE IF i < 6700 THEN "MEDIO" ELSE "ALTO"),
      componentes |-> [mercado |-> [volatilidad |-> v]]] :
        i \in {2000, 3500, 4500, 7500, 9000}, v \in {1500, 4500}}

RiesgosEntrada == ConFaltantes(RiesgosCompletos, {"categoria"})

ResultadosEscenariosCompletos ==
    {[n \in {"Pesimista", "Base", "Optimista"} |->
        [van |-> CASE n = "Pesimista" -> p [] n = "Base" -> b [] n = "Optimista" -> 30000]] :
        p \in {-200000, 10000}, b \in {0, 25000}}

ResultadosEscenariosEntrada == ConFaltantes(ResultadosEscenariosCompletos, {})

\* scores as calcular_puntuacion_proyecto returns them: the points of the four
\* criteria and their sum
PuntuacionesEntrada ==
    {[puntuacion_total |-> re + ri + es + me, puntos_rentabilidad |-> re,
      puntos_riesgo |-> ri, puntos_escenarios |-> es, puntos_mercado |-> me] :
        re \in {0, 18, 33, 40}, ri \in {0, 15, 22, 30}, es \in {2, 12, 20},
        me \in 1..10}

-----------------------------------------------------------------------------
(* The Monte Carlo simulations and the global generator np.random.  The    *)
(* generator is a state that seed() sets and every draw advances; a normal *)
(* deviate is a function of the state reached.  Deviates and volatilities  *)
(* are in tenths, samples in hundredths, utilities in 1e-4 soles.          *)

MaxEstadosRng == 16     \* states of the generator of the model
NSimulaciones == 3      \* n_simulaciones the callers pass
MaxRegistro == 3        \* calls watched in a row
SEMILLA == 42

\* np.random.seed(semilla)
seed(semilla) == semilla % MaxEstadosRng

\* the state after one more draw
Siguiente(s) == (5 * s + 3) % MaxEstadosRng

RECURSIVE Avanzar(_, _)
Avanzar(s, n) == IF n = 0 THEN s ELSE Avanzar(Siguiente(s), n - 1)

\* the standard normal deviate drawn in state s, tenths
Desviado(s) == ((7 * s) % 41) - 20

\* np.random.normal(media, media * volatilidad, n) from state s, hundredths
normal(s, media, volatilidad, n) ==
    [i \in 1..n |-> media * 100 + media * volatilidad * Desviado(Avanzar(s, i))]

\* np.maximum(muestras, media * 0.3)
maximum(muestras, media) ==
    [i \in DOMAIN muestras |-> Max(muestras[i], media * 30)]

\* np.sum(muestras < umbral)
ContarBajo(muestras, umbral) ==
    Cardinality({i \in DOMAIN muestras : muestras[i] < umbral})

\* RiesgoModel.simular_monte_carlo from generator state s: media in cents,
\* probabilidad_perdida in 1e-4
riesgo_simular_monte_carlo(s, rendimiento_probable, volatilidad, n_simulaciones) ==
    LET simulaciones ==
            maximum(normal(s, rendimiento_probable, volatilidad, n_simulaciones),
                    rendimiento_probable)
    IN  [media |-> Round2(Suma(simulaciones), 100 * n_simulaciones),
         probabilidad_perdida |->
             RoundHalfEven(10000 * ContarBajo(simulaciones, rendimiento_probable * 80),
                           n_simulaciones)]

\* EscenariosService.simular_monte_carlo: it seeds the generator itself
escenarios_simular_monte_carlo(rendimiento_medio, precio_medio, area, costos, volatilidad_rend, volatilidad_precio, n_simulaciones) ==
    LET s0 == seed(SEMILLA)
        rendimientos ==
            maximum(normal(s0, rendimiento_medio, volatilidad_rend, n_simulaciones),
                    rendimiento_medio)
        precios ==
            maximum(normal(Avanzar(s0, n_simulaciones), precio_medio,
                           volatilidad_precio, n_simulaciones), precio_medio)
        utilidades ==
            [i \in 1..n_simulaciones |->
                rendimientos[i] * area * precios[i] - costos * 10000]
    IN  [utilidad_media |-> Round2(Suma(utilidades), 10000 * n_simulaciones),
         probabilidad_perdida |->
             RoundHalfEven(10000 * ContarBajo(utilidades, 0), n_simulaciones)]

\* the price history page 3 draws for its chart, hundredths of a sol
Pagina3PreciosHist(precio_base, volatilidad) ==
    [i \in 1..12 |-> precio_base * 100
                     + precio_base * volatilidad * Desviado(Avanzar(seed(SEMILLA), i))]

\* evaluations as page 4 stores them, with the roi analisis_rentabilidad_completo
\* adds: amounts in soles, van and ingreso_total in cents, percentages in 1e-2
EvaluacionesPagina6 ==
    {[van |-> 50000, utilidad_bruta |-> 180, costo_total |-> 300, roi |-> 6000,
      margen_utilidad |-> 3750, ingreso_total |-> 48000, punto_equilibrio_kg |-> 15000],
     [van |-> 50000, utilidad_bruta |-> 150, costo_total |-> 300, roi |-> 5000,
      margen_utilidad |-> 3000, ingreso_total |-> 50000, punto_equilibrio_kg |-> 30000],
     [van |-> 20000, utilidad_bruta |-> 75, costo_total |-> 300, roi |-> 2500,
      margen_utilidad |-> 2000, ingreso_total |-> 37500, punto_equilibrio_kg |-> 30000],
     [van |-> -100000, utilidad_bruta |-> 30, costo_total |-> 300, roi |-> 1000,
      margen_utilidad |-> 909, ingreso_total |-> 33000, punto_equilibrio_kg |-> 32000],
     [van |-> -100000, utilidad_bruta |-> -30, costo_total |-> 300, roi |-> -1000,
      margen_utilidad |-> -1111, ingreso_total |-> 27000, punto_equilibrio_kg |-> 32000],
     [van |-> 0, utilidad_bruta |-> 100, costo_total |-> 0, roi |-> 0,
      margen_utilidad |-> 10000, ingreso_total |-> 10000, punto_equilibrio_kg |-> 0]}

-----------------------------------------------------------------------------
(* The calls.  A call runs from pc = "idle" to pc = "ret", where the       *)
(* caller holds its result; Retornar gives control back.                   *)

Llamada(nombre, a, r) ==
    /\ pc = "idle"
    /\ pc' = "ret"
    /\ op' = nombre
    /\ args' = a
    /\ ret' = r
    /\ UNCHANGED <<marco, pendientes, escenarios_llamador, escenarios_default>>
    /\ UNCHANGED <<rng, registro, session_state>>

PredecirRendimiento ==
    /\ pc = "idle"
    /\ \E c \in CultivosEntrada, r \in RegionesEntrada,
       s \in EscalaEntrada, w \in EscalaEntrada, t \in EscalaEntrada,
       e \in ExperienciaEntrada :
        Llamada("predecir_rendimiento",
                [cultivo |-> c, region |-> r, fertilidad_suelo |-> s,
                 disponibilidad_agua |-> w, tecnologia |-> t, experiencia |-> e],
                predecir_rendimiento(c, r, s, w, t, e))

PredecirRendimientoCompleto ==
    /\ pc = "idle"
    /\ \E c \in CultivosEntrada, r \in RegionesEntrada, a \in AreasEntrada,
       p \in ParametrosEntrada :
        Llamada("predecir_rendimiento_completo",
                [cultivo |-> c, region |-> r, area_disponible |-> a, parametros |-> p],
                predecir_rendimiento_completo(c, r, a, p))

CompararCultivos ==
    /\ pc = "idle"
    /\ \E cs \in ListasDeCultivos, r \in RegionesEntrada, a \in AreasEntrada,
       p \in ParametrosEntrada :
        Llamada("comparar_cultivos",
                [cultivos |-> cs, region |-> r, area_disponible |-> a, parametros |-> p],
                comparar_cultivos(cs, r, a, p))

PredecirConClima ==
    /\ pc = "idle"
    /\ \E c \in CultivosEntrada, r \in RegionesEntrada, m \in MesesEntrada,
       s \in EscalaEntrada, w \in EscalaEntrada, t \in EscalaEntrada,
       e \in ExperienciaEntrada :
        Llamada("predecir_con_clima",
                [cultivo |-> c, region |-> r, mes_siembra |-> m,
                 fertilidad_suelo |-> s, disponibilidad_agua |-> w,
                 tecnologia |-> t, experiencia |-> e],
                predecir_con_clima(c, r, m, s, w, t, e))

Pagina2 ==
    /\ pc = "idle"
    /\ \E c \in CultivosEstacionales, r \in RegionesEntrada, a \in AreasEntrada,
       s \in EscalaEntrada, w \in EscalaEntrada, t \in EscalaEntrada,
       e \in ExperienciaEntrada :
        Llamada("pagina2",
                [cultivo |-> c, region |-> r, area |-> a, fertilidad_suelo |-> s,
                 disponibilidad_agua |-> w, tecnologia |-> t, experiencia |-> e],
                Pagina2Prediccion(c, r, a, s, w, t, e))

CalcularFlujoCaja ==
    /\ pc = "idle"
    /\ \E i \in CostosEntrada, r \in IngresosEntrada, c \in CostosEntrada,
       n \in MesesDuracion :
        Llamada("calcular_flujo_caja",
                [inversion_inicial |-> i, ingresos_totales |-> r,
                 costos_operativos |-> c, duracion_meses |-> n],
                [flujo |-> calcular_flujo_caja(i, r, c, n)])

GenerarFlujoSimple ==
    /\ pc = "idle"
    /\ \E c \in CostosEntrada, r \in IngresosEntrada, n \in MesesDuracion :
        Llamada("_generar_flujo_simple",
                [costos |-> c, ingresos |-> r, meses |-> n],
                [flujo |-> _generar_flujo_simple(c, r, n)])

CalcularVanTir ==
    /\ pc = "idle"
    /\ \E i \in CostosEntrada, r \in IngresosEntrada, n \in MesesDuracion,
       t \in TasasOpcionales :
        LET flujo == calcular_flujo_caja(i, r, i, n)
        IN  Llamada("calcular_van_tir",
                    [flujo_caja |-> flujo, tasa_descuento_anual |-> t],
                    calcular_van_tir(flujo, t))

CalcularPuntoEquilibrio ==
    /\ pc = "idle"
    /\ \E cf \in {0, 60, 13300}, cv \in {0, 5, 25}, p \in {0, 5, 25, 50} :
        Llamada("calcular_punto_equilibrio",
                [costos_fijos |-> cf, costos_variables_unitarios |-> cv,
                 precio_venta_unitario |-> p],
                calcular_punto_equilibrio(cf, cv, p))

AnalisisRentabilidadCompleto ==
    /\ pc = "idle"
    /\ \E i \in CostosEntrada, r \in IngresosEntrada, c \in CostosEntrada,
       n \in MesesDuracion, t \in TasasOpcionales :
        Llamada("analisis_rentabilidad_completo",
                [inversion_total |-> i, ingresos_totales |-> r, costos_totales |-> c,
                 duracion_meses |-> n, tasa_descuento |-> t],
                analisis_rentabilidad_completo(i, r, c, n, t))

Pagina4 ==
    /\ pc = "idle"
    /\ \E d \in DatosProductorEntrada, p \in ProduccionEntrada, t \in TasasEntrada \ {0} :
        Llamada("pagina4",
                [datos |-> d, prediccion |-> [produccion_probable |-> p],
                 tasa_descuento |-> t],
                Pagina4Evaluacion(d, [produccion_probable |-> p], t))

Pagina5 ==
    /\ pc = "idle"
    /\ \E d \in DatosProductorEntrada, r \in RendimientosEntrada \ {0},
       t \in TasasEntrada \ {0} :
        LET prediccion == [rendimiento_probable |-> r,
                           produccion_probable |-> r * d.area_disponible]
            evaluacion == [tasa_descuento |-> t]
        IN  Llamada("pagina5",
                    [datos |-> d, prediccion |-> prediccion, evaluacion |-> evaluacion],
                    Pagina5Escenarios(d, prediccion, evaluacion))

CategorizarRiesgo ==
    /\ pc = "idle"
    /\ \E v \in ValoresRiesgo :
        Llamada("_categorizar_riesgo", [valor_riesgo |-> v],
                [categoria |-> _categorizar_riesgo(v)])

CalcularIra ==
    /\ pc = "idle"
    /\ \E d \in DatosEntrada, r \in {"Lima", "Arequipa", "Tumbes"},
          c \in {"Maiz", "Cafe", "Yuca"}, t \in RendimientosTriples,
          p \in {NINGUNO, Algun(20), Algun(50)},
          m \in {NINGUNO, Algun(1), Algun(7)} :
        Llamada("calcular_ira",
                [datos |-> d, region |-> r, cultivo |-> c, rendimiento_minimo |-> t[1],
                 rendimiento_probable |-> t[2], rendimiento_maximo |-> t[3],
                 precio_esperado |-> p, mes_siembra |-> m],
                calcular_ira(d, r, c, t[1], t[2], t[3], p, m))

\* the longest list of measures proposed
MaxMedidas == 3

\* an index of 0 to 0.9 and up to MaxMedidas measures: an insurance, an
\* irrigation with technology, a diversification, a monitoring, and a text
\* that names no key
EvaluarMitigacionRiesgos ==
    /\ pc = "idle"
    /\ \E ira \in {0, 500, 1000, 1500, 3300, 4000, 5000, 6700, 9000},
          k \in 0..MaxMedidas :
        \E medidas \in [1..k -> {{"seguro"}, {"riego", "tecnologia"},
                                 {"diversificacion"}, {"monitoreo"}, {}}] :
            Llamada("evaluar_mitigacion_riesgos",
                    [ira_actual |-> ira, medidas_propuestas |-> medidas],
                    evaluar_mitigacion_riesgos(ira, medidas))

\* greatest common divisor of two naturals
RECURSIVE MCD(_, _)
MCD(a, b) == IF b = 0 THEN a ELSE MCD(b, a % b)

\* calcular_riesgo_produccion on the three yields predecir_rendimiento returns
\* for inputs on the 1-10 scales.  The result depends on the yields through
\* their ratios only, so they are passed in their largest common unit.
RiesgoDePrediccion ==
    /\ pc = "idle"
    /\ \E c \in DOMAIN cultivos_data, r \in RegionesEntrada, s \in EscalaEntrada,
          w \in EscalaEntrada, t \in EscalaEntrada, e \in ExperienciaEntrada :
        LET p == predecir_rendimiento(c, r, s, w, t, e)
            unidad == MCD(p.rendimiento_minimo,
                          MCD(p.rendimiento_probable, p.rendimiento_maximo))
            minimo == p.rendimiento_minimo \div unidad
            probable == p.rendimiento_probable \div unidad
            maximo == p.rendimiento_maximo \div unidad
        IN  Llamada("riesgo_de_prediccion",
                    [cultivo |-> c, region |-> r, fertilidad_suelo |-> s,
                     disponibilidad_agua |-> w, tecnologia |-> t, experiencia |-> e,
                     rendimiento_minimo |-> minimo, rendimiento_probable |-> probable,
                     rendimiento_maximo |-> maximo],
                    calcular_riesgo_produccion(minimo, probable, maximo))

\* the criteria of the score called on their own, at and around their
\* thresholds: van in cents, roi and margen_utilidad in 1e-2 percent
EvaluarRentabilidad ==
    /\ pc = "idle"
    /\ \E van \in {-1, 0, 1},
          roi \in {-1, 0, 1, 1000, 1001, 2000, 2001, 3000, 3001, 5000, 5001},
          margen \in {-1, 0, 1, 1000, 1001, 1500, 1501, 2000, 2001, 3000, 3001} :
        LET e == [van |-> van, roi |-> roi, margen_utilidad |-> margen]
        IN  Llamada("_evaluar_rentabilidad", [evaluacion |-> e],
                    [puntos |-> _evaluar_rentabilidad(e)])

EvaluarEscenarios ==
    /\ pc = "idle"
    /\ \E pes \in {-100001, -100000, -99999, -1, 0, 1, 10000},
          base \in {-20000, 0, 20000},
          dif \in {-25000, 0, 19999, 20000, 29999, 30000, 39999, 40000} :
        LET e == [Pesimista |-> [van |-> pes], Base |-> [van |-> base],
                  Optimista |-> [van |-> pes + dif]]
        IN  Llamada("_evaluar_escenarios", [escenarios |-> e],
                    [puntos |-> _evaluar_escenarios(e)])

\* _evaluar_mercado on the break-even quantity and the revenue of a project
\* (costo soles, precio tenths of a sol per kg, produccion kg) and a risk
\* analysis with the shape calcular_ira returns
EvaluarMercado ==
    /\ pc = "idle"
    /\ \E costo \in {60, 300}, precio \in PreciosEntrada,
          produccion \in {100, 200, 400, 1000},
          v \in {1999, 2000, 2999, 3000, 3999, 4000} :
        LET e == [punto_equilibrio_kg |-> (costo * 1000) \div precio,
                  ingreso_total |-> produccion * precio * 10]
            a == [componentes |-> [mercado |-> [volatilidad |-> v]]]
        IN  Llamada("_evaluar_mercado",
                    [evaluacion |-> e, riesgos |-> a,
                     datos |-> [precio_venta_esperado |-> precio, costo_total |-> costo]],
                    [puntos |-> _evaluar_mercado(e, a)])

CalcularPuntuacionProyecto ==
    /\ pc = "idle"
    /\ \E e \in EvaluacionesEntrada, a \in RiesgosEntrada,
          r \in ResultadosEscenariosEntrada :
        Llamada("calcular_puntuacion_proyecto",
                [evaluacion_economica |-> e, analisis_riesgos |-> a,
                 resultados_escenarios |-> r],
                calcular_puntuacion_proyecto(e, a, r))

GenerarRecomendacionFinal ==
    /\ pc = "idle"
    /\ \E p \in PuntuacionesEntrada :
        Llamada("generar_recomendacion_final", [puntuacion |-> p],
                generar_recomendacion_final(p))

Pagina6 ==
    /\ pc = "idle"
    /\ \E precio \in PreciosEntrada, m \in {0, 100}, dr \in {10, 25, 100},
          a \in RiesgosCompletos, e \in EvaluacionesPagina6,
          r \in ResultadosEscenariosCompletos :
        LET d == [precio_venta_esperado |-> precio]
            p == [rendimiento_minimo |-> m, rendimiento_probable |-> m + dr]
        IN  Llamada("pagina6",
                    [datos |-> d, prediccion |-> p, riesgos |-> a, evaluacion |-> e,
                     escenarios |-> r],
                    Pagina6Puntuacion(d, p, a, e, r))

\* the dict the loop of simular_escenarios iterates: 'if escenarios is None:
\* escenarios = self.escenarios_default'
DictIterado ==
    IF EsNinguno(escenarios_llamador) THEN escenarios_default ELSE escenarios_llamador

SimularEscenariosLlamar ==
    /\ pc = "idle"
    /\ \E r \in RendimientosEntrada, p \in PreciosEntrada, a \in AreasEntrada,
       c \in CostosEntrada, t \in TasasEntrada \ {24}, n \in MesesDuracion,
       e \in {NINGUNO} \cup DictsLlamador :
        /\ pc' = "bucle"
        /\ op' = "simular_escenarios"
        /\ args' = [rendimiento_base |-> r, precio_base |-> p, area |-> a,
                    costos_totales |-> c, tasa_descuento |-> t, duracion_meses |-> n,
                    escenarios |-> e]
        /\ escenarios_llamador' = e
        /\ marco' = MarcoInicial(r, p, a, c, t, n)
        /\ pendientes' = (IF EsNinguno(e) THEN escenarios_default ELSE e).orden
        /\ UNCHANGED <<ret, escenarios_default>>
        /\ UNCHANGED <<rng, registro, session_state>>

SimularEscenariosIterar ==
    /\ pc = "bucle"
    /\ pendientes # <<>>
    /\ LET nombre == Head(pendientes)
       IN  marco' = CuerpoBucle(marco, nombre, DictIterado.config[nombre])
    /\ pendientes' = Tail(pendientes)
    /\ UNCHANGED <<pc, op, args, ret, escenarios_llamador, escenarios_default>>
    /\ UNCHANGED <<rng, registro, session_state>>

SimularEscenariosRetornar ==
    /\ pc = "bucle"
    /\ pendientes = <<>>
    /\ pc' = "ret"
    /\ ret' = marco.resultados
    /\ UNCHANGED <<op, args, marco, pendientes, escenarios_llamador, escenarios_default>>
    /\ UNCHANGED <<rng, registro, session_state>>

Retornar ==
    /\ pc = "ret"
    /\ pc' = "idle"
    /\ op' = "ninguna"
    /\ args' = NINGUNO
    /\ ret' = NINGUNO
    /\ marco' = NINGUNO
    /\ pendientes' = <<>>
    /\ escenarios_llamador' = NINGUNO
    /\ UNCHANGED escenarios_default
    /\ UNCHANGED <<rng, registro, session_state>>

Init ==
    /\ pc = "idle"
    /\ op = "ninguna"
    /\ args = NINGUNO
    /\ ret = NINGUNO
    /\ marco = NINGUNO
    /\ pendientes = <<>>
    /\ escenarios_llamador = NINGUNO
    /\ escenarios_default = EscenariosDefault
    /\ rng = SEMILLA % MaxEstadosRng
    /\ registro = <<>>
    /\ session_state = DictVacio

Next ==
    \/ PredecirRendimiento
    \/ PredecirRendimientoCompleto
    \/ CompararCultivos
    \/ PredecirConClima
    \/ Pagina2
    \/ CalcularFlujoCaja
    \/ GenerarFlujoSimple
    \/ CalcularVanTir
    \/ CalcularPuntoEquilibrio
    \/ AnalisisRentabilidadCompleto
    \/ Pagina4
    \/ Pagina5
    \/ CategorizarRiesgo
    \/ CalcularIra
    \/ EvaluarRentabilidad
    \/ EvaluarEscenarios
    \/ EvaluarMercado
    \/ RiesgoDePrediccion
    \/ EvaluarMitigacionRiesgos
    \/ CalcularPuntuacionProyecto
    \/ GenerarRecomendacionFinal
    \/ Pagina6
    \/ SimularEscenariosLlamar
    \/ SimularEscenariosIterar
    \/ SimularEscenariosRetornar
    \/ Retornar

Spec == Init /\ [][Next]_vars

-----------------------------------------------------------------------------
(* The session.  Every run of a page is one step: the page checks that the *)
(* artifacts it needs are in st.session_state, computes, and stores its    *)
(* own artifact.  An artifact is modelled by what it was computed from     *)
(* (de: the stored values the page read) and the inputs of the page.       *)

\* the producer data the form of page 1 saves
DatosSesion ==
    {[tipo_cultivo |-> "Maiz", ubicacion |-> "Lima", area_disponible |-> 1,
      precio_venta_esperado |-> 20, costo_total |-> 300, duracion_dias |-> 90],
     [tipo_cultivo |-> "Papa", ubicacion |-> "Cusco", area_disponible |-> 2,
      precio_venta_esperado |-> 5, costo_total |-> 0, duracion_dias |-> 15]}

\* st.session_state[clave] = valor
Guardar(clave, valor) ==
    [k \in DOMAIN session_state \cup {clave} |->
        IF k = clave THEN valor ELSE session_state[k]]

\* a page run ends with the session it leaves; a page returns nothing
Visita(sesion) ==
    /\ pc = "idle"
    /\ session_state' = sesion
    /\ UNCHANGED <<pc, op, args, ret, marco, pendientes, escenarios_llamador,
                   escenarios_default, rng, registro>>

\* a page that stops unless every key of requeridas is stored (and the
\* producer data, where no_vacios names it, is not empty), raises where falla
\* holds, and otherwise stores its artifact
Pagina(requeridas, no_vacios, falla, clave, entrada, lee) ==
    IF \/ ~(requeridas \subseteq DOMAIN session_state)
       \/ \E k \in no_vacios : EsVacio(session_state[k])
       \/ falla
    THEN Visita(session_state)
    ELSE Visita(Guardar(clave, [entrada |-> entrada, de |-> [k \in lee |-> session_state[k]]]))

\* page 1 opened: an absent datos_productor becomes {}
SesionPagina1Abrir ==
    /\ pc = "idle"
    /\ Visita(IF "datos_productor" \in DOMAIN session_state THEN session_state
              ELSE Guardar("datos_productor", DictVacio))

\* page 1, "Guardar Datos" with a valid form
SesionPagina1Guardar ==
    /\ pc = "idle"
    /\ \E d \in DatosSesion : Visita(Guardar("datos_productor", d))

SesionPagina2 ==
    /\ pc = "idle"
    /\ Pagina({"datos_productor"}, {"datos_productor"}, FALSE,
              "prediccion_rendimiento", NINGUNO, {"datos_productor"})

SesionPagina3 ==
    /\ pc = "idle"
    /\ Pagina({"datos_productor", "prediccion_rendimiento"}, {"datos_productor"}, FALSE,
              "analisis_riesgos", NINGUNO, {"datos_productor", "prediccion_rendimiento"})

\* page 4 divides by costo_total and by duracion_meses - 1
SesionPagina4 ==
    /\ pc = "idle"
    /\ \E t \in {12, 24} :
        Pagina({"datos_productor", "prediccion_rendimiento"}, {"datos_productor"},
               /\ "datos_productor" \in DOMAIN session_state
               /\ ~EsVacio(session_state["datos_productor"])
               /\ \/ session_state["datos_productor"].costo_total = 0
                  \/ DuracionMeses(session_state["datos_productor"].duracion_dias) = 1,
               "evaluacion_economica", [tasa_descuento |-> t],
               {"datos_productor", "prediccion_rendimiento"})

\* page 5 divides by duracion_meses - 1
SesionPagina5 ==
    /\ pc = "idle"
    /\ Pagina({"datos_productor", "prediccion_rendimiento", "evaluacion_economica"},
              {"datos_productor"},
              /\ "datos_productor" \in DOMAIN session_state
              /\ ~EsVacio(session_state["datos_productor"])
              /\ DuracionMeses(session_state["datos_productor"].duracion_dias) = 1,
              "escenarios", NINGUNO,
              {"datos_productor", "prediccion_rendimiento", "evaluacion_economica"})

SesionPagina6 ==
    /\ pc = "idle"
    /\ Pagina({"datos_productor", "prediccion_rendimiento", "analisis_riesgos",
               "evaluacion_economica", "escenarios"}, {}, FALSE,
              "recomendacion_final", NINGUNO,
              {"datos_productor", "prediccion_rendimiento", "analisis_riesgos",
               "evaluacion_economica", "escenarios"})

\* a variant of the reset that deletes the producer data only
ReiniciarSoloDatos ==
    /\ pc = "idle"
    /\ Visita([k \in DOMAIN session_state \ {"datos_productor"} |-> session_state[k]])

\* "Reiniciar Analisis" of app.py: every key is deleted
Reiniciar ==
    /\ pc = "idle"
    /\ Visita([k \in DOMAIN session_state \ DOMAIN session_state |-> session_state[k]])

\* page 7 with its report rendered, "Iniciar Nuevo Analisis": the page stops
\* before the button unless the six artifacts are stored
SesionPagina7Reiniciar ==
    /\ pc = "idle"
    /\ IF {"datos_productor", "prediccion_rendimiento", "analisis_riesgos",
           "evaluacion_economica", "escenarios", "recomendacion_final"}
              \subseteq DOMAIN session_state
       THEN Visita(DictVacio)
       ELSE Visita(session_state)

InitSesion ==
    /\ pc = "idle"
    /\ op = "ninguna"
    /\ args = NINGUNO
    /\ ret = NINGUNO
    /\ marco = NINGUNO
    /\ pendientes = <<>>
    /\ escenarios_llamador = NINGUNO
    /\ escenarios_default = EscenariosDefault
    /\ rng = SEMILLA % MaxEstadosRng
    /\ registro = <<>>
    /\ session_state = DictVacio

NextSesion ==
    \/ SesionPagina1Abrir
    \/ SesionPagina1Guardar
    \/ SesionPagina2
    \/ SesionPagina3
    \/ SesionPagina4
    \/ SesionPagina5
    \/ SesionPagina6
    \/ SesionPagina7Reiniciar
    \/ Reiniciar

SpecSesion == InitSesion /\ [][NextSesion]_vars

-----------------------------------------------------------------------------
(* The calls that draw from the generator, and the calls between them.   *)

\* a finished call enters the log
Registrar(nombre, a, r) ==
    /\ pc = "idle"
    /\ Len(registro) < MaxRegistro
    /\ op' = nombre
    /\ args' = a
    /\ ret' = r
    /\ registro' = Append(registro, [op |-> nombre, args |-> a, ret |-> r])
    /\ UNCHANGED <<pc, marco, pendientes, escenarios_llamador, escenarios_default,
                   session_state>>

RiesgoSimularMonteCarlo ==
    /\ pc = "idle"
    /\ \E m \in {1000, 2000}, v \in {2, 5} :
        /\ Registrar("RiesgoModel.simular_monte_carlo",
                     [rendimiento_probable |-> m, volatilidad |-> v,
                      n_simulaciones |-> NSimulaciones],
                     riesgo_simular_monte_carlo(rng, m, v, NSimulaciones))
        /\ rng' = Avanzar(rng, NSimulaciones)

EscenariosSimularMonteCarlo ==
    /\ pc = "idle"
    /\ \E m \in {1000, 2000}, c \in {1000, 3000} :
        /\ Registrar("EscenariosService.simular_monte_carlo",
                     [rendimiento_medio |-> m, precio_medio |-> 2, area |-> 1,
                      costos |-> c, volatilidad_rend |-> 2, volatilidad_precio |-> 3,
                      n_simulaciones |-> NSimulaciones],
                     escenarios_simular_monte_carlo(m, 2, 1, c, 2, 3, NSimulaciones))
        /\ rng' = Avanzar(seed(SEMILLA), 2 * NSimulaciones)

Pagina3Precios ==
    /\ pc = "idle"
    /\ \E v \in {2, 3} :
        /\ Registrar("pagina3.precios_hist", [precio_base |-> 2, volatilidad |-> v],
                     [precios_hist |-> Pagina3PreciosHist(2, v)])
        /\ rng' = Avanzar(seed(SEMILLA), 12)

\* a stage that draws nothing, called between the simulations
CategorizarEntreSimulaciones ==
    /\ pc = "idle"
    /\ \E v \in {329999, 330000} :
        /\ Registrar("_categorizar_riesgo", [valor_riesgo |-> v],
                     [categoria |-> _categorizar_riesgo(v)])
        /\ UNCHANGED rng

\* the process has started: nobody has seeded the generator
InitAzar ==
    /\ pc = "idle"
    /\ op = "ninguna"
    /\ args = NINGUNO
    /\ ret = NINGUNO
    /\ marco = NINGUNO
    /\ pendientes = <<>>
    /\ escenarios_llamador = NINGUNO
    /\ escenarios_default = EscenariosDefault
    /\ rng \in 0..(MaxEstadosRng - 1)
    /\ registro = <<>>
    /\ session_state = DictVacio

NextAzar ==
    \/ RiesgoSimularMonteCarlo
    \/ EscenariosSimularMonteCarlo
    \/ Pagina3Precios
    \/ CategorizarEntreSimulaciones

SpecAzar == InitAzar /\ [][NextAzar]_vars

-----------------------------------------------------------------------------
(* C1: every yield prediction on valid inputs (a crop of the reference     *)
(* data, scales 1..10, experience >= 0, month 1..12) has                   *)
(* rendimiento_minimo <= rendimiento_probable <= rendimiento_maximo, from  *)
(* predecir_rendimiento, from predecir_con_clima after its seasonal        *)
(* adjustment, and from the prediction page.                               *)
C1_MinProbableMax ==
    (pc = "ret" /\ op \in {"predecir_rendimiento", "predecir_con_clima", "pagina2"}
        /\ "rendimiento_probable" \in DOMAIN ret)
    => /\ ret.rendimiento_minimo <= ret.rendimiento_probable
       /\ ret.rendimiento_probable <= ret.rendimiento_maximo

-----------------------------------------------------------------------------
(* C2: calcular_puntuacion_proyecto invoked with a required artifact       *)
(* missing (no 'ira'; no Pesimista, Base or Optimista; no van, roi or      *)
(* margen_utilidad) fails with MissingDependency and returns no score.     *)

C2_FaltaArtefacto ==
    /\ pc = "ret"
    /\ op = "calcular_puntuacion_proyecto"
    /\ \/ "ira" \notin DOMAIN args.analisis_riesgos
       \/ {"Pesimista", "Base", "Optimista"} \ DOMAIN args.resultados_escenarios # {}
       \/ {"van", "roi", "margen_utilidad"} \ DOMAIN args.evaluacion_economica # {}

C2_FallaSinArtefacto ==
    C2_FaltaArtefacto => ret = Excepcion("MissingDependency")

-----------------------------------------------------------------------------
(* C3: for a campaign whose duration gives duracion_meses = 1, building    *)
(* the schedule completes without a division by zero in the services, on   *)
(* page 4 and in the scenarios and sweeps of page 5.                       *)

\* the call at hand builds a schedule for duracion_meses = 1 (page 4 reaches
\* its schedule only with a positive total cost)
C3_UnMes ==
    /\ pc = "ret"
    /\ \/ op \in {"calcular_flujo_caja", "analisis_rentabilidad_completo"}
          /\ args.duracion_meses = 1
       \/ op = "_generar_flujo_simple" /\ args.meses = 1
       \/ op = "simular_escenarios" /\ args.duracion_meses = 1
       \/ op = "pagina5" /\ DuracionMeses(args.datos.duracion_dias) = 1
       \/ op = "pagina4" /\ DuracionMeses(args.datos.duracion_dias) = 1
          /\ args.datos.costo_total > 0

C3_SinDivisionPorCero ==
    C3_UnMes => ~EsExcepcion(ret)

-----------------------------------------------------------------------------
(* C4: the schedule of calcular_flujo_caja and of _generar_flujo_simple    *)
(* for cost C, revenue R and n months has n+1 periods: -0.3*C, then n-1    *)
(* periods of -0.7*C/(n-1), the last period being R - 0.7*C/(n-1), or R    *)
(* alone when n = 1.                                                       *)

C4_Calendario(C, R, n) ==
    IF n = 1
    THEN << -((C * 3) \div 10), R >>
    ELSE LET cuota == ((C * 7) \div 10) \div (n - 1)
         IN  << -((C * 3) \div 10) >> \o [i \in 1..(n - 1) |-> -cuota] \o << R - cuota >>

C4_CalendarioDelFlujo ==
    /\ (pc = "ret" /\ op = "calcular_flujo_caja")
        => ret.flujo = C4_Calendario(args.inversion_inicial, args.ingresos_totales,
                                     args.duracion_meses)
    /\ (pc = "ret" /\ op = "_generar_flujo_simple")
        => ret.flujo = C4_Calendario(args.costos, args.ingresos, args.meses)

-----------------------------------------------------------------------------
(* C5: the viability flag of a financial evaluation is VIABLE exactly when *)
(* the NPV is positive and the gross profit is positive.                   *)

C5_ViableSiVanYUtilidad ==
    /\ (pc = "ret" /\ op = "analisis_rentabilidad_completo")
        => LET tasa == IF EsNinguno(args.tasa_descuento)
                       THEN TASA_DESCUENTO_DEFAULT ELSE args.tasa_descuento.valor
               van == npv(tasa \div 12, ret.flujo_caja)
           IN  (ret.viabilidad = "VIABLE")
               <=> (van.num > 0 /\ args.ingresos_totales - args.costos_totales > 0)
    /\ (pc = "ret" /\ op = "pagina4" /\ ~EsExcepcion(ret))
        => ((ret.viabilidad = "VIABLE") <=> (ret.van.num > 0 /\ ret.utilidad_bruta > 0))

-----------------------------------------------------------------------------
(* C6: with a total cost of 0 every computation of the ROI gives 0 and     *)
(* none divides by zero: the evaluation, each scenario, pages 4 and 5.     *)

C6_RoiConCostoCero ==
    /\ (pc = "ret" /\ op = "analisis_rentabilidad_completo" /\ args.costos_totales = 0)
        => ret.roi = 0
    /\ (pc = "ret" /\ op = "simular_escenarios" /\ args.costos_totales = 0)
        => \A n \in DOMAIN ret : ret[n].roi = 0
    /\ (pc = "ret" /\ op = "pagina4" /\ args.datos.costo_total = 0)
        => ~EsExcepcion(ret)
    /\ (pc = "ret" /\ op = "pagina5" /\ args.datos.costo_total = 0
            /\ DuracionMeses(args.datos.duracion_dias) > 1)
        => /\ ~EsExcepcion(ret)
           /\ \A n \in DOMAIN ret.escenarios : ret.escenarios[n].roi.num = 0

-----------------------------------------------------------------------------
(* C7: the break-even quantity is total_cost/price when the price is       *)
(* positive (13300 at 2.5 gives 5320), and a price <= 0 fails with         *)
(* InvalidInput: no quantity, in particular not 0, is returned.            *)

C7_PuntoEquilibrio ==
    (pc = "ret" /\ op = "calcular_punto_equilibrio"
        /\ args.costos_variables_unitarios = 0)
    => IF args.precio_venta_unitario > 0
       THEN \* the quantity, in hundredths of a kg, is the quotient rounded
            /\ ~EsExcepcion(ret)
            /\ 2 * Abs(ret.punto_equilibrio_unidades * args.precio_venta_unitario
                       - args.costos_fijos * 1000) <= args.precio_venta_unitario
       ELSE ret = Excepcion("InvalidInput")

-----------------------------------------------------------------------------
(* C8: the Base scenario (multipliers 1.00, 1.00) that simular_escenarios  *)
(* returns has the revenue, profit, margin, ROI and NPV of the direct      *)
(* analisis_rentabilidad_completo of revenue = yield * area * price with   *)
(* the same total cost, duration and discount rate.                        *)

\* simular_escenarios has returned a set that holds Base
C8_BaseDevuelto ==
    /\ pc = "ret"
    /\ op = "simular_escenarios"
    /\ "Base" \in DOMAIN ret

C8_BaseIgualEvaluacionDirecta ==
    C8_BaseDevuelto
    => LET ingresos == (args.rendimiento_base * args.area * args.precio_base) \div 10
           directa == analisis_rentabilidad_completo(
                          args.costos_totales, ingresos, args.costos_totales,
                          args.duracion_meses, Algun(args.tasa_descuento))
       IN  /\ ret["Base"].factores = [rendimiento |-> 100, precio |-> 100]
           /\ ret["Base"].ingresos = ingresos * 100
           /\ ret["Base"].utilidad = directa.utilidad_bruta
           /\ ret["Base"].margen = directa.margen_utilidad
           /\ ret["Base"].roi = directa.roi
           /\ ret["Base"].van = directa.van

\* a Base scenario with revenue, a cost and several months has been returned
C8_Testigo ==
    /\ C8_BaseDevuelto
    /\ args.costos_totales > 0
    /\ args.duracion_meses > 1
    /\ ret["Base"].ingresos > 0
    /\ ret["Base"].van > 0

-----------------------------------------------------------------------------
(* C9: the result of simular_escenarios for a scenario depends only on the *)
(* base inputs and on the scenario's own multipliers, whatever the other   *)
(* scenarios of the set and their order; the call leaves the base inputs,  *)
(* the dict passed in and the service's default set unchanged.             *)

C9_EscenariosIndependientes ==
    (pc \in {"bucle", "ret"} /\ op = "simular_escenarios")
    => LET entrada == MarcoInicial(args.rendimiento_base, args.precio_base, args.area,
                                   args.costos_totales, args.tasa_descuento,
                                   args.duracion_meses)
       IN  /\ \A n \in DOMAIN marco.resultados :
                marco.resultados[n] = ResultadoEscenario(entrada, ConfigLlamador[n])
           /\ [marco EXCEPT !.resultados = <<>>] = entrada
           /\ escenarios_llamador = args.escenarios
           /\ escenarios_default = EscenariosDefault
           /\ pc = "ret" => ret = marco.resultados

\* a caller's set of MaxEscenarios scenarios, Base not first, has been
\* simulated to the end
C9_Testigo ==
    /\ pc = "ret"
    /\ op = "simular_escenarios"
    /\ ~EsNinguno(args.escenarios)
    /\ Len(args.escenarios.orden) = MaxEscenarios
    /\ args.escenarios.orden[1] # "Base"
    /\ "Base" \in DOMAIN ret
    /\ args.rendimiento_base > 0

-----------------------------------------------------------------------------
(* C10: a risk value below 0.33 is categorised low (BAJO), a value from    *)
(* 0.33 and below 0.67 medium (MEDIO), any other high (ALTO), for the IRA  *)
(* and for the label of every sub-risk; and of two values, the larger one  *)
(* never gets the less severe category.                                    *)

\* 1 for low, 2 for medium, 3 for high
C10_Severidad(categoria) ==
    CASE categoria \in {"Bajo", "BAJO"} -> 1
      [] categoria \in {"Medio", "MEDIO"} -> 2
      [] categoria \in {"Alto", "ALTO"} -> 3

\* the severity the thresholds give a value in 1e-6
C10_Nivel(valor) == IF valor < 330000 THEN 1 ELSE IF valor < 670000 THEN 2 ELSE 3

\* calcular_ira has returned an index
C10_IraDevuelto == pc = "ret" /\ op = "calcular_ira" /\ ~EsExcepcion(ret)

-----------------------------------------------------------------------------
(* C11: the IRA that calcular_ira returns, 0.40 * climate + 0.35 * market  *)
(* + 0.25 * production, lies in [0, 1] for climate probabilities in [0, 1] *)
(* and any volatility, yields, price and month, also when the seasonal     *)
(* factor 1.15 and the price-deviation factor 1.2 both apply.              *)

C11_IraEnIntervalo ==
    (pc = "ret" /\ op = "calcular_ira" /\ ~EsExcepcion(ret))
    => (0 <= ret.ira /\ ret.ira <= 10000)

-----------------------------------------------------------------------------
(* C12: calcular_puntuacion_proyecto returns sub-scores within their caps  *)
(* (profitability 0..40, risk 0..30, scenarios 0..20, market 0..10) and a  *)
(* total that is their sum and lies in [0, 100].                           *)

\* calcular_puntuacion_proyecto has returned a score
C12_Puntuado ==
    pc = "ret" /\ op = "calcular_puntuacion_proyecto" /\ ~EsExcepcion(ret)

C12_PuntosDentroDeTopes ==
    C12_Puntuado
    => /\ ret.puntos_rentabilidad \in 0..40
       /\ ret.puntos_riesgo \in 0..30
       /\ ret.puntos_escenarios \in 0..20
       /\ ret.puntos_mercado \in 0..10
       /\ ret.puntuacion_total = ret.puntos_rentabilidad + ret.puntos_riesgo
                                 + ret.puntos_escenarios + ret.puntos_mercado
       /\ ret.puntuacion_total \in 0..100

\* every criterion at its cap
C12_Testigo ==
    /\ C12_Puntuado
    /\ ret.puntos_rentabilidad = 40
    /\ ret.puntos_riesgo = 30
    /\ ret.puntos_escenarios = 20
    /\ ret.puntos_mercado = 10
    /\ ret.puntuacion_total = 100

-----------------------------------------------------------------------------
(* C13: generar_recomendacion_final maps the total score to one of four    *)
(* recommendations (from 80 proceed, from 60 proceed with caution, from 40 *)
(* rotate or adjust, below 40 do not plant); the rationale and the         *)
(* immediate actions belong to the tier of the recommendation, and a       *)
(* higher score never gets a less favourable tier.                         *)

\* the tier the thresholds give a score: 4 proceed .. 1 do not plant
C13_Nivel(puntaje) ==
    IF puntaje >= 80 THEN 4 ELSE IF puntaje >= 60 THEN 3 ELSE IF puntaje >= 40 THEN 2 ELSE 1

C13_NivelDeRecomendacion(recomendacion) ==
    CASE recomendacion = "CONVIENE SEMBRAR ESTE CULTIVO" -> 4
      [] recomendacion = "CONVIENE SEMBRAR CON PRECAUCIONES" -> 3
      [] recomendacion = "SE RECOMIENDA ROTAR O AJUSTAR CULTIVO" -> 2
      [] recomendacion = "NO SE RECOMIENDA SEMBRAR EN ESTA CAMPANA" -> 1
      [] OTHER -> 0

C13_NivelDeDetalle(detalle) ==
    CASE detalle = "PROYECTO ALTAMENTE RECOMENDADO" -> 4
      [] detalle = "PROYECTO VIABLE CON CONSIDERACIONES" -> 3
      [] detalle = "PROYECTO CON RIESGOS SIGNIFICATIVOS" -> 2
      [] detalle = "PROYECTO NO RECOMENDADO" -> 1
      [] OTHER -> 0

C13_NivelDeAcciones(acciones) ==
    CASE acciones[1] = "Iniciar preparacion de terreno segun cronograma" -> 4
      [] acciones[1] = "Contratar seguro agricola antes de iniciar" -> 3
      [] acciones[1] = "Reevaluar alternativas de cultivo para la region" -> 2
      [] acciones[1] = "Suspender el proyecto temporalmente" -> 1
      [] OTHER -> 0

\* generar_recomendacion_final has returned
C13_Recomendado == pc = "ret" /\ op = "generar_recomendacion_final"

\* page 6 has derived its recommendation
C13_RecomendadoEnPagina == pc = "ret" /\ op = "pagina6" /\ ~EsExcepcion(ret)

C13_RecomendacionPorNivel ==
    /\ C13_RecomendadoEnPagina
       => LET nivel == C13_NivelDeRecomendacion(ret.recomendacion)
          IN  /\ nivel = C13_Nivel(ret.puntuacion_total)
              /\ C13_NivelDeDetalle(ret.detalle) = nivel
              /\ \A t \in 0..100 :
                    t >= ret.puntuacion_total
                        => C13_NivelDeRecomendacion(
                               Pagina6Recomendacion(t).recomendacion) >= nivel
    /\ C13_Recomendado
       => LET nivel == C13_NivelDeRecomendacion(ret.recomendacion)
          IN  /\ nivel = C13_Nivel(args.puntuacion.puntuacion_total)
              /\ C13_NivelDeDetalle(ret.detalle) = nivel
              /\ C13_NivelDeAcciones(ret.acciones_inmediatas) = nivel
              /\ \A q \in PuntuacionesEntrada :
                    q.puntuacion_total >= args.puntuacion.puntuacion_total
                        => C13_NivelDeRecomendacion(
                               generar_recomendacion_final(q).recomendacion) >= nivel

\* a score of exactly 80 has been recommended to proceed
C13_Testigo ==
    /\ C13_Recomendado
    /\ args.puntuacion.puntuacion_total = 80
    /\ ret.recomendacion = "CONVIENE SEMBRAR ESTE CULTIVO"

-----------------------------------------------------------------------------
(* C14: two calls of one stage with identical inputs return identical      *)
(* results, whatever calls happen in between, the two Monte Carlo          *)
(* simulations included.                                                   *)

C14_MismasEntradasMismoResultado ==
    \A i \in DOMAIN registro, j \in DOMAIN registro :
        (registro[i].op = registro[j].op /\ registro[i].args = registro[j].args)
            => registro[i].ret = registro[j].ret

-----------------------------------------------------------------------------
(* C15: predecir_rendimiento fails with the not-found error and no         *)
(* prediction for a crop absent from the crop data; for a region absent    *)
(* from the regional factors it does not fail and predicts with factor     *)
(* 0.9.  The service that wraps it passes both on.                         *)

C15_Predicho == pc = "ret" /\ op = "predecir_rendimiento"

C15_PredichoCompleto == pc = "ret" /\ op = "predecir_rendimiento_completo"

C15_CultivoYRegionDesconocidos ==
    /\ C15_Predicho
       => /\ args.cultivo \notin DOMAIN cultivos_data
             => ret = Excepcion("ValueError")
          /\ (args.cultivo \in DOMAIN cultivos_data /\ args.region \notin RegionesConocidas)
             => /\ ~EsExcepcion(ret)
                /\ ret = LET c == cultivos_data[args.cultivo]
                         IN  RendimientosAjustados(
                                 c.rendimiento_minimo_kg_ha, c.rendimiento_promedio_kg_ha,
                                 c.rendimiento_maximo_kg_ha, 90,
                                 calcular_factor_ajuste(
                                     args.fertilidad_suelo, args.disponibilidad_agua,
                                     args.tecnologia, args.experiencia))
    /\ C15_PredichoCompleto
       => /\ args.cultivo \notin DOMAIN cultivos_data
             => ret = Excepcion("ValueError")
          /\ (args.cultivo \in DOMAIN cultivos_data /\ args.region \notin RegionesConocidas)
             => /\ ~EsExcepcion(ret)
                /\ ret.factor_region = 90
                /\ ret.rendimiento_probable =
                       RoundHalfEven(
                           Producto(cultivos_data[args.cultivo].rendimiento_promedio_kg_ha,
                                    90,
                                    calcular_factor_ajuste(
                                        Get(args.parametros, "fertilidad_suelo", 7),
                                        Get(args.parametros, "disponibilidad_agua", 7),
                                        Get(args.parametros, "tecnologia", 6),
                                        Get(args.parametros, "experiencia", 10))),
                           100)

\* a known crop has been predicted in a region without a factor
C15_Testigo ==
    /\ C15_Predicho
    /\ args.cultivo = "Maiz"
    /\ args.region = "Tumbes"
    /\ ~EsExcepcion(ret)
    /\ ret.rendimiento_probable > 0

-----------------------------------------------------------------------------
(* C16: no stage catches a fatal error and goes on: when the prediction of *)
(* a crop fails inside comparar_cultivos the error reaches the caller, and *)
(* no comparison without the failed crop is returned.                      *)

\* a crop of the list whose prediction raises
C16_AlgunCultivoFalla ==
    \E i \in DOMAIN args.cultivos :
        EsExcepcion(predecir_rendimiento_completo(args.cultivos[i], args.region,
                                                  args.area_disponible, args.parametros))

C16_ErrorLlegaAlLlamador ==
    (pc = "ret" /\ op = "comparar_cultivos" /\ C16_AlgunCultivoFalla)
        => EsExcepcion(ret)

-----------------------------------------------------------------------------
(* C17: for a schedule without a sign change calcular_van_tir raises no    *)
(* error and returns tir_anual and tir_porcentaje as None, never as a      *)
(* number or NaN.                                                          *)

C17_CambioDeSigno ==
    /\ \E k \in DOMAIN args.flujo_caja : args.flujo_caja[k] < 0
    /\ \E k \in DOMAIN args.flujo_caja : args.flujo_caja[k] > 0

C17_SinCambioDeSignoTirNula ==
    (pc = "ret" /\ op = "calcular_van_tir" /\ ~C17_CambioDeSigno)
        => /\ ~EsExcepcion(ret)
           /\ ret.tir_anual \notin {"numero", "nan"}
           /\ ret.tir_porcentaje \notin {"numero", "nan"}

-----------------------------------------------------------------------------
(* C18: the payback period of the financial evaluation is the smallest     *)
(* period index whose cumulative cash flow is >= 0, and it is None exactly *)
(* when no period has a cumulative cash flow >= 0.                         *)

\* the cumulative cash flow through period i (periods count from 0)
C18_AcumuladoHasta(flujo, i) == Suma(SubSeq(flujo, 1, i + 1))

C18_EsRecuperacion(flujo, periodo) ==
    IF EsNinguno(periodo)
    THEN \A i \in 0..(Len(flujo) - 1) : C18_AcumuladoHasta(flujo, i) < 0
    ELSE /\ periodo.valor \in 0..(Len(flujo) - 1)
         /\ C18_AcumuladoHasta(flujo, periodo.valor) >= 0
         /\ \A i \in 0..(periodo.valor - 1) : C18_AcumuladoHasta(flujo, i) < 0

C18_PeriodoDeRecuperacion ==
    /\ (pc = "ret" /\ op = "analisis_rentabilidad_completo" /\ ~EsExcepcion(ret))
        => C18_EsRecuperacion(ret.flujo_caja, ret.periodo_recuperacion_meses)
    /\ (pc = "ret" /\ op = "pagina4" /\ ~EsExcepcion(ret))
        => C18_EsRecuperacion(ret.flujo_caja, ret.periodo_recuperacion)

\* a schedule of more than two periods that starts below zero and is
\* recovered in its last period
C18_Testigo ==
    /\ pc = "ret" /\ op = "analisis_rentabilidad_completo" /\ ~EsExcepcion(ret)
    /\ ret.flujo_caja[1] < 0
    /\ Len(ret.flujo_caja) > 2
    /\ ret.periodo_recuperacion_meses = Algun(Len(ret.flujo_caja) - 1)

-----------------------------------------------------------------------------
(* C19: in every state of the session each stored downstream artifact was  *)
(* computed from the versions of its dependencies that are stored now, so  *)
(* that after the producer data are saved again or the discount rate is    *)
(* changed no recommendation based on older data is left.                  *)

C19_Artefactos ==
    {"prediccion_rendimiento", "analisis_riesgos", "evaluacion_economica",
     "escenarios", "recomendacion_final"}

C19_ArtefactosVigentes ==
    \A a \in C19_Artefactos \cap DOMAIN session_state :
        \A k \in DOMAIN session_state[a].de :
            /\ k \in DOMAIN session_state
            /\ session_state[k] = session_state[a].de[k]

-----------------------------------------------------------------------------
(* C20: an artifact is stored only while the artifacts it depends on are   *)
(* stored, the prediction only while the producer data are stored and not  *)
(* empty, and a reset leaves no artifact behind.                           *)

C20_Dependencias ==
    [a \in C19_Artefactos |->
        CASE a = "recomendacion_final" ->
                {"escenarios", "evaluacion_economica", "analisis_riesgos",
                 "prediccion_rendimiento"}
          [] a = "escenarios" -> {"evaluacion_economica"}
          [] a = "evaluacion_economica" -> {"prediccion_rendimiento"}
          [] a = "analisis_riesgos" -> {"prediccion_rendimiento"}
          [] a = "prediccion_rendimiento" -> {"datos_productor"}]

C20_DependenciasGuardadas ==
    /\ [](/\ \A a \in C19_Artefactos \cap DOMAIN session_state :
                C20_Dependencias[a] \subseteq DOMAIN session_state
          /\ "prediccion_rendimiento" \in DOMAIN session_state
                => /\ "datos_productor" \in DOMAIN session_state
                   /\ ~EsVacio(session_state["datos_productor"]))
    /\ [][(DOMAIN session_state \ DOMAIN session_state' # {})
              => DOMAIN session_state' = {}]_vars

\* the whole chain is stored
C20_Testigo ==
    C19_Artefactos \cup {"datos_productor"} \subseteq DOMAIN session_state

-----------------------------------------------------------------------------
(* C21: on the same stored artifacts the four sub-scores and the total of  *)
(* page 6 equal those of calcular_puntuacion_proyecto, so that page and    *)
(* service reach the same recommendation.                                  *)

\* what the service computes on the artifacts page 6 has scored
C21_DelServicio ==
    calcular_puntuacion_proyecto(args.evaluacion, args.riesgos, args.escenarios)

C21_PaginaIgualServicio ==
    (pc = "ret" /\ op = "pagina6" /\ ~EsExcepcion(ret))
        => /\ ret.puntos_rentabilidad = C21_DelServicio.puntos_rentabilidad
           /\ ret.puntos_riesgo = C21_DelServicio.puntos_riesgo
           /\ ret.puntos_escenarios = C21_DelServicio.puntos_escenarios
           /\ ret.puntos_mercado = C21_DelServicio.puntos_mercado
           /\ ret.puntuacion_total = C21_DelServicio.puntuacion_total
           /\ ret.recomendacion =
                  generar_recomendacion_final(C21_DelServicio).recomendacion

-----------------------------------------------------------------------------
(* C22: for every duration of one month or more, the periods of the        *)
(* cash-flow schedule add up, undiscounted, to revenue minus total cost.   *)

C22_SumaEsIngresoMenosCosto ==
    /\ (pc = "ret" /\ op = "calcular_flujo_caja")
        => Suma(ret.flujo) = args.ingresos_totales - args.inversion_inicial
    /\ (pc = "ret" /\ op = "_generar_flujo_simple")
        => Suma(ret.flujo) = args.ingresos - args.costos
    /\ (pc = "ret" /\ op = "pagina4" /\ ~EsExcepcion(ret))
        => Suma(ret.flujo_caja) = ret.ingreso_total - ret.costo_total

-----------------------------------------------------------------------------
(* C23: the profitability sub-score is 15 points when the NPV is positive, *)
(* plus 15/12/10/7/5/0 for an ROI above 50/30/20/10/0 percent or not above *)
(* 0, plus 10/8/7/5/3/0 for a margin above 30/20/15/10/0 percent or not    *)
(* above 0, capped at 40; a value equal to a threshold is in the lower     *)
(* tier.                                                                   *)

C23_PuntosRoi(roi) ==
    CASE roi > 5000 -> 15
      [] roi <= 5000 /\ roi > 3000 -> 12
      [] roi <= 3000 /\ roi > 2000 -> 10
      [] roi <= 2000 /\ roi > 1000 -> 7
      [] roi <= 1000 /\ roi > 0 -> 5
      [] roi <= 0 -> 0

C23_PuntosMargen(margen) ==
    CASE margen > 3000 -> 10
      [] margen <= 3000 /\ margen > 2000 -> 8
      [] margen <= 2000 /\ margen > 1500 -> 7
      [] margen <= 1500 /\ margen > 1000 -> 5
      [] margen <= 1000 /\ margen > 0 -> 3
      [] margen <= 0 -> 0

C23_Puntos(e) ==
    Min((IF e.van > 0 THEN 15 ELSE 0) + C23_PuntosRoi(e.roi)
        + C23_PuntosMargen(e.margen_utilidad), 40)

C23_RentabilidadPorTramos ==
    /\ (pc = "ret" /\ op = "_evaluar_rentabilidad")
        => ret.puntos = C23_Puntos(args.evaluacion)
    /\ (pc = "ret" /\ op = "calcular_puntuacion_proyecto"
        /\ {"van", "roi", "margen_utilidad"} \subseteq DOMAIN args.evaluacion_economica)
        => ret.puntos_rentabilidad = C23_Puntos(args.evaluacion_economica)

\* an ROI of exactly 50 % and a margin of exactly 30 % with a positive NPV
\* have been scored 15 + 12 + 8
C23_Testigo ==
    /\ pc = "ret" /\ op = "_evaluar_rentabilidad"
    /\ args.evaluacion.van > 0
    /\ args.evaluacion.roi = 5000
    /\ args.evaluacion.margen_utilidad = 3000
    /\ ret.puntos = 35

-----------------------------------------------------------------------------
(* C24: the scenario sub-score is 10 points when the pessimistic NPV is    *)
(* positive, else 5 when it is above -1000, else 0; plus, when the base    *)
(* NPV is not 0, 10/8/6/2 points for a variability                         *)
(* |optimistic - pessimistic| / |base| below 1.0/1.5/2.0 or not below 2.0; *)
(* it never exceeds 20.                                                    *)

C24_Puntos(pes, base, opt) ==
    LET dif == Abs(opt - pes)
        b == Abs(base)
    IN  (IF pes > 0 THEN 10 ELSE IF pes > -100000 THEN 5 ELSE 0)
        + (IF base = 0 THEN 0
           ELSE CASE dif < b -> 10
                  [] dif >= b /\ 2 * dif < 3 * b -> 8
                  [] 2 * dif >= 3 * b /\ dif < 2 * b -> 6
                  [] dif >= 2 * b -> 2)

C24_EscenariosPorTramos ==
    /\ (pc = "ret" /\ op = "_evaluar_escenarios")
        => LET e == args.escenarios
           IN  /\ ret.puntos = C24_Puntos(e.Pesimista.van, e.Base.van, e.Optimista.van)
               /\ ret.puntos <= 20
    /\ (pc = "ret" /\ op = "calcular_puntuacion_proyecto"
        /\ args.resultados_escenarios \in ResultadosEscenariosCompletos)
        => LET e == args.resultados_escenarios
           IN  /\ ret.puntos_escenarios
                      = C24_Puntos(e.Pesimista.van, e.Base.van, e.Optimista.van)
               /\ ret.puntos_escenarios <= 20

\* a negative base NPV with the optimistic NPV under the pessimistic one, at
\* a variability of 1.25, has been scored 5 + 8
C24_Testigo ==
    /\ pc = "ret" /\ op = "_evaluar_escenarios"
    /\ args.escenarios.Base.van = -20000
    /\ args.escenarios.Pesimista.van = -1
    /\ args.escenarios.Optimista.van = -25001
    /\ ret.puntos = 13

-----------------------------------------------------------------------------
(* C25: the market sub-score is 5/3/1/0 points for a break-even revenue    *)
(* below 50/70/90 percent of the total revenue or not below 90 percent,    *)
(* both amounts of money, plus 5/4/2/1 points for a market volatility of   *)
(* the risk analysis below 0.20/0.30/0.40 or not below 0.40.               *)

\* the break-even revenue in cents: the break-even quantity (hundredths of a
\* kg) at the selling price (tenths of a sol per kg)
C25_IngresoDeEquilibrio ==
    (args.evaluacion.punto_equilibrio_kg * args.datos.precio_venta_esperado) \div 10

C25_Puntos(pe_ingresos, ingresos, volatilidad) ==
    (IF 2 * pe_ingresos < ingresos THEN 5
     ELSE IF 10 * pe_ingresos < 7 * ingresos THEN 3
     ELSE IF 10 * pe_ingresos < 9 * ingresos THEN 1
     ELSE 0)
    + (IF volatilidad < 2000 THEN 5
       ELSE IF volatilidad < 3000 THEN 4
       ELSE IF volatilidad < 4000 THEN 2
       ELSE 1)

C25_MercadoPorTramos ==
    (pc = "ret" /\ op = "_evaluar_mercado")
        => ret.puntos = C25_Puntos(C25_IngresoDeEquilibrio,
                                   args.evaluacion.ingreso_total,
                                   args.riesgos.componentes.mercado.volatilidad)

-----------------------------------------------------------------------------
(* C26: predecir_con_clima multiplies rendimiento_probable and             *)
(* rendimiento_maximo by 0.92 exactly when the sowing month is outside the *)
(* crop's optimal months and leaves them unchanged otherwise; the minimum  *)
(* yield, the adjustment factor and the regional factor are the same for   *)
(* every sowing month.                                                     *)

\* the yields of predecir_rendimiento for the inputs of the call at hand
C26_Base ==
    predecir_rendimiento(args.cultivo, args.region, args.fertilidad_suelo,
                         args.disponibilidad_agua, args.tecnologia, args.experiencia)

\* rend (1e-4 kg/ha, a multiple of 25) times 0.92 = 23/25 or times 1,
\* rounded to cents
C26_Ajustado(rend, fuera_de_mes) ==
    RoundHalfEven(IF fuera_de_mes THEN (rend \div 25) * 23 ELSE rend, 100)

\* what the same call returns for the sowing month m
C26_EnMes(m) ==
    predecir_con_clima(args.cultivo, args.region, m, args.fertilidad_suelo,
                       args.disponibilidad_agua, args.tecnologia, args.experiencia)

C26_SoloProbableYMaximoPorMes ==
    (pc = "ret" /\ op = "predecir_con_clima" /\ ~EsExcepcion(ret))
        => LET fuera == args.mes_siembra \notin meses_optimos[args.cultivo]
           IN  /\ C26_Base.rendimiento_probable % 25 = 0
               /\ C26_Base.rendimiento_maximo % 25 = 0
               /\ ret.rendimiento_probable
                      = C26_Ajustado(C26_Base.rendimiento_probable, fuera)
               /\ ret.rendimiento_maximo
                      = C26_Ajustado(C26_Base.rendimiento_maximo, fuera)
               /\ ret.rendimiento_minimo
                      = RoundHalfEven(C26_Base.rendimiento_minimo, 100)
               /\ \A m \in MesesEntrada :
                    /\ C26_EnMes(m).rendimiento_minimo = ret.rendimiento_minimo
                    /\ C26_EnMes(m).factor_ajuste = ret.factor_ajuste
                    /\ C26_EnMes(m).factor_region = ret.factor_region

\* potatoes sown in July, outside August to October, predicted with a
\* probable yield under the one of August
C26_Testigo ==
    /\ pc = "ret" /\ op = "predecir_con_clima" /\ ~EsExcepcion(ret)
    /\ args.cultivo = "Papa" /\ args.mes_siembra = 7
    /\ ret.rendimiento_probable < C26_EnMes(8).rendimiento_probable
    /\ ret.rendimiento_maximo < C26_EnMes(8).rendimiento_maximo
    /\ ret.rendimiento_minimo = C26_EnMes(8).rendimiento_minimo

-----------------------------------------------------------------------------
(* C27: for every yield prediction on valid inputs the production risk is  *)
(* min(cv/2, 0.8) and lies in [0, 0.8], with cv >= 0, and the safety       *)
(* margin (probable - minimo)/probable lies in [0, 1].                     *)

C27_RiesgoYMargenEnRango ==
    (pc = "ret" /\ op = "riesgo_de_prediccion")
        => /\ ~EsExcepcion(ret)
           /\ ret.coeficiente_variacion >= 0
           /\ ret.riesgo \in 0..8000
           /\ ret.riesgo
                  = RoundHalfEven(
                        Min(((args.rendimiento_maximo - args.rendimiento_minimo) * 500000)
                                \div args.rendimiento_probable, 800000), 100)
           /\ ret.margen_seguridad \in 0..10000

-----------------------------------------------------------------------------
(* C28: for a total cost above 0 and every revenue and duration, the       *)
(* payback period analisis_rentabilidad_completo reports is, when present, *)
(* the index of the final period, duracion_meses, the cumulative cash flow *)
(* being negative at every earlier period; and it is present exactly when  *)
(* the undiscounted sum of the whole schedule is >= 0.                     *)

\* the evaluation at hand built its schedule from a positive total cost
C28_Evaluado ==
    /\ pc = "ret" /\ op = "analisis_rentabilidad_completo" /\ ~EsExcepcion(ret)
    /\ args.inversion_total > 0

C28_RecuperacionEnUltimoPeriodo ==
    C28_Evaluado
        => LET periodo == ret.periodo_recuperacion_meses
               flujo == ret.flujo_caja
           IN  /\ Len(flujo) = args.duracion_meses + 1
               /\ ~EsNinguno(periodo) <=> Suma(flujo) >= 0
               /\ ~EsNinguno(periodo)
                    => /\ periodo.valor = args.duracion_meses
                       /\ \A i \in 0..(args.duracion_meses - 1) :
                            Suma(SubSeq(flujo, 1, i + 1)) < 0

\* a campaign of three months whose revenue covers the schedule: recovered
\* in period 3
C28_Testigo ==
    /\ C28_Evaluado
    /\ args.duracion_meses = 3
    /\ args.ingresos_totales > 0
    /\ ret.periodo_recuperacion_meses = Algun(3)

\* a campaign whose revenue does not cover the schedule: no payback period
C28_TestigoSinRecuperacion ==
    /\ C28_Evaluado
    /\ args.ingresos_totales > 0
    /\ EsNinguno(ret.periodo_recuperacion_meses)

-----------------------------------------------------------------------------
(* C29: with the default scenarios, non-negative yield, price, area and    *)
(* total cost, a discount rate >= 0 and a duration >= 1, the revenue, the  *)
(* profit, the ROI and the NPV of Pesimista are each <= those of Base,     *)
(* which are each <= those of Optimista.                                   *)

\* simular_escenarios has returned from a call without a dict of its own
C29_SimuladoPorDefecto ==
    pc = "ret" /\ op = "simular_escenarios" /\ EsNinguno(args.escenarios)

C29_NoMayor(a, b) ==
    /\ a.ingresos <= b.ingresos
    /\ a.utilidad <= b.utilidad
    /\ a.roi <= b.roi
    /\ a.van <= b.van

C29_EscenariosOrdenados ==
    C29_SimuladoPorDefecto
        => /\ DOMAIN ret = {"Pesimista", "Base", "Optimista"}
           /\ C29_NoMayor(ret.Pesimista, ret.Base)
           /\ C29_NoMayor(ret.Base, ret.Optimista)

\* a project with a positive cost and revenue, discounted over three months,
\* whose four figures rise strictly from Pesimista to Optimista
C29_Testigo ==
    /\ C29_SimuladoPorDefecto
    /\ args.costos_totales > 0 /\ args.tasa_descuento > 0 /\ args.duracion_meses = 3
    /\ ret.Pesimista.ingresos < ret.Base.ingresos
    /\ ret.Base.ingresos < ret.Optimista.ingresos
    /\ ret.Pesimista.roi < ret.Base.roi /\ ret.Base.roi < ret.Optimista.roi
    /\ ret.Pesimista.van < ret.Base.van /\ ret.Base.van < ret.Optimista.van

-----------------------------------------------------------------------------
(* C30: evaluar_mitigacion_riesgos never projects a higher risk than the   *)
(* current one: for every ira_actual >= 0 and every list of measures the   *)
(* relative reduction is at most 35 %, 0.65*ira_actual <= ira_proyectado   *)
(* <= ira_actual, reduccion_absoluta >= 0 and nueva_categoria is not more  *)
(* severe than the category of ira_actual.                                 *)

C30_Severidad(categoria) ==
    CASE categoria = "BAJO" -> 1 [] categoria = "MEDIO" -> 2 [] categoria = "ALTO" -> 3

C30_NoProyectaMasRiesgo ==
    (pc = "ret" /\ op = "evaluar_mitigacion_riesgos")
        => /\ ret.reduccion_relativa <= 3500
           /\ 65 * args.ira_actual <= 100 * ret.ira_proyectado
           /\ ret.ira_proyectado <= args.ira_actual
           /\ ret.reduccion_absoluta >= 0
           /\ C30_Severidad(ret.nueva_categoria)
                  <= C30_Severidad(_categorizar_ira(args.ira_actual * 100))

====
